---- MODULE Spec2Model ----
(***************************************************************************)
(* Model of the build-file transformation engine of the Gradle migration   *)
(* automator (src/src/participants/transformationPlanner.ts).              *)
(*                                                                         *)
(* Texts are TLA+ strings; a character of a text s is SubSeq(s, i, i).     *)
(* The regular expressions of the source are written as sequences of       *)
(* pattern elements and matched by a backtracking matcher that follows the *)
(* ECMAScript matching rules for the constructs the source uses.           *)
(***************************************************************************)
EXTENDS Integers, Sequences, FiniteSets, TLC

VARIABLES
    content,      \* stripper / injector: the text handed to the function
    first,        \* result of the first application, or None
    second,       \* result of the application to the first result, or None
    oldText,      \* diff generator: the original text
    newText,      \* diff generator: the transformed text
    diff,         \* [text |-> the text returned by generateUnifiedDiff], or None
    patched,      \* the outcome of applying diff to oldText, or None
    versions,     \* synthesizer: extracted version variables, <<[k, v], ...>>
    deps,         \* synthesizer: extracted dependency declarations
    referenceContext, \* synthesizer: the parsed reference catalog, or None
    toml,         \* [text |-> the text returned by buildToml], or None
    files,        \* orchestrator: the project tree, path -> text
    meta,         \* the meta directory: templates and reference catalog
    pc,           \* the step executeStepByStepMigration is about to take
    filesChanged, \* the list of changed paths of the current run
    lowRisk,      \* the three risk counters of the current run
    mediumRisk,
    highRisk,
    buildFiles,   \* the build files found in step 3
    idx,          \* the position of the loop of step 6 in buildFiles
    lastAI,       \* the outcome of the AI request of step 3, until step 4 is taken
    aiFailed,     \* whether an AI request of the current run has failed
    runs,         \* the number of completed runs
    result,       \* what the last completed run returned, or None
    stateFile,    \* migrate command: the content of migration-state.json, or None
    now,          \* the value of Date.now()
    cmd,          \* the step the migrate command is about to take
    foundState,   \* the state file the current invocation has found, and when
    resumed,      \* whether the current invocation resumes after a restart
    prompted,     \* whether the current invocation has asked the user for input
    cloned,       \* whether the current invocation has called the clone
    workspace,    \* [path |-> the workspace the invocation works on], or None
    patchFile,    \* [text |-> the content of patches.diff], or None
    planResult,   \* what generatePatches has returned to the invocation, or None
    ended,        \* how the last invocation has ended
    invocations,  \* the number of invocations of the command
    failing,      \* scans: the directories readdirSync throws on
    parserScan,   \* what findGradleFiles has returned or thrown, or None
    plannerScan   \* what findAllBuildGradleFiles has returned or thrown, or None

textVars == <<content, first, second>>
diffVars == <<oldText, newText, diff, patched>>
tomlVars == <<versions, deps, referenceContext, toml>>
runVars == <<files, meta, pc, filesChanged, lowRisk, mediumRisk, highRisk,
             buildFiles, idx, lastAI, aiFailed, runs, result>>
cmdVars == <<stateFile, now, cmd, foundState, resumed, prompted, cloned, workspace,
             patchFile, planResult, ended, invocations>>
scanVars == <<failing, parserScan, plannerScan>>
vars == <<content, first, second, oldText, newText, diff, patched,
          versions, deps, referenceContext, toml,
          files, meta, pc, filesChanged, lowRisk, mediumRisk, highRisk,
          buildFiles, idx, lastAI, aiFailed, runs, result,
          stateFile, now, cmd, foundState, resumed, prompted, cloned, workspace,
          patchFile, planResult, ended, invocations,
          failing, parserScan, plannerScan>>

None == [none |-> TRUE]

(***************************************************************************)
(* Characters and character classes.                                       *)
(***************************************************************************)
Ch(s, i) == SubSeq(s, i, i)

UpperCaseLetters == "ABCDEFGHIJKLMNOPQRSTUVWXYZ"
LowerCaseLetters == "abcdefghijklmnopqrstuvwxyz"
DigitChars == "0123456789"

CharsOf(s) == { Ch(s, i) : i \in 1..Len(s) }

\* \s
WhiteSpace == {" ", "\n", "\t", "\r"}
\* \w
WordChars == CharsOf(UpperCaseLetters) \cup CharsOf(LowerCaseLetters)
                 \cup CharsOf(DigitChars) \cup {"_"}
\* the characters . does not match
LineTerminators == {"\n", "\r"}
\* ['"]
QuoteChars == {"'", "\""}

(***************************************************************************)
(* Pattern elements.                                                       *)
(***************************************************************************)
Lit(s)    == [k |-> "lit", s |-> s]          \* a literal string
Ws0       == [k |-> "ws0"]                   \* \s*   (greedy)
Ws1       == [k |-> "ws1"]                   \* \s+   (greedy)
Quote     == [k |-> "cls", c |-> QuoteChars] \* ['"]
Lazy      == [k |-> "lazy"]                  \* [\s\S]*?
DotStar   == [k |-> "dotstar"]               \* .*    (greedy)
WordB     == [k |-> "wb"]                    \* \b
StartOrNl == [k |-> "bol"]                   \* (^|\n)
LineStart == [k |-> "ls"]                    \* ^  under the m flag
LineEnd   == [k |-> "le"]                    \* $  under the m flag
Cls1(c)   == [k |-> "cls1", c |-> c]         \* [c]+  (greedy)
NotCls1(c) == [k |-> "ncls1", c |-> c]       \* [^c]+ (greedy)
Opt(q)    == [k |-> "opt", q |-> q]          \* (?:q)?  (greedy)
LazyDot   == [k |-> "lazydot"]               \* .*?

IsWordAt(s, i) == i >= 1 /\ i <= Len(s) /\ Ch(s, i) \in WordChars

\* the least element of a non-empty set of positions
MinPos(S) == CHOOSE t \in S : \A u \in S : t <= u
\* the greatest element of a non-empty set of positions
MaxPos(S) == CHOOSE t \in S : \A u \in S : t >= u

\* the position after the longest run of characters of class c starting at i
SkipWhile(s, i, c) ==
    CHOOSE t \in i..(Len(s) + 1) :
        /\ (t = Len(s) + 1 \/ Ch(s, t) \notin c)
        /\ \A u \in i..(t - 1) : Ch(s, u) \in c

\* the position after the longest run of characters outside class c
SkipUntil(s, i, c) ==
    CHOOSE t \in i..(Len(s) + 1) :
        /\ (t = Len(s) + 1 \/ Ch(s, t) \in c)
        /\ \A u \in i..(t - 1) : Ch(s, u) \notin c

(***************************************************************************)
(* MatchSeq(p, j, s, i): the elements j.. of the element sequence p are    *)
(* matched against s starting at position i.  The result is the position   *)
(* after the match, or 0 when there is no match.  A greedy element takes   *)
(* the longest run after which the rest of the pattern matches (it gives   *)
(* characters back one by one); the lazy element takes the shortest.       *)
(***************************************************************************)
RECURSIVE MatchSeq(_, _, _, _)
RECURSIVE GiveBack(_, _, _, _, _)

\* the first attempt when it matches, else the second
OrElse(r, other) == IF r # 0 THEN r ELSE other

\* greedy: the run ends at the greatest t in lo..hi from which the rest matches
GiveBack(p, j, s, lo, hi) ==
    IF hi < lo THEN 0
    ELSE OrElse(MatchSeq(p, j + 1, s, hi), GiveBack(p, j, s, lo, hi - 1))

\* lazy: the run ends at the least t in i..hi from which the rest matches
TakeMore(p, j, s, i, hi) ==
    IF \E t \in i..hi : MatchSeq(p, j + 1, s, t) # 0
    THEN MatchSeq(p, j + 1, s,
                  CHOOSE t \in i..hi :
                      /\ MatchSeq(p, j + 1, s, t) # 0
                      /\ \A u \in i..(t - 1) : MatchSeq(p, j + 1, s, u) = 0)
    ELSE 0

\* element e, which is p[j]
MatchElement(e, p, j, s, i) ==
    CASE e.k = "lit" ->
           IF i + Len(e.s) - 1 <= Len(s) /\ SubSeq(s, i, i + Len(e.s) - 1) = e.s
           THEN MatchSeq(p, j + 1, s, i + Len(e.s)) ELSE 0
      [] e.k = "cls" ->
           IF i <= Len(s) /\ Ch(s, i) \in e.c
           THEN MatchSeq(p, j + 1, s, i + 1) ELSE 0
      [] e.k = "ws0" -> GiveBack(p, j, s, i, SkipWhile(s, i, WhiteSpace))
      [] e.k = "ws1" -> GiveBack(p, j, s, i + 1, SkipWhile(s, i, WhiteSpace))
      [] e.k = "dotstar" -> GiveBack(p, j, s, i, SkipUntil(s, i, LineTerminators))
      [] e.k = "lazy" -> TakeMore(p, j, s, i, Len(s) + 1)
      [] e.k = "lazydot" -> TakeMore(p, j, s, i, SkipUntil(s, i, LineTerminators))
      [] e.k = "wb" ->
           IF IsWordAt(s, i - 1) # IsWordAt(s, i)
           THEN MatchSeq(p, j + 1, s, i) ELSE 0
      [] e.k = "ls" ->
           IF i = 1 \/ Ch(s, i - 1) \in LineTerminators
           THEN MatchSeq(p, j + 1, s, i) ELSE 0
      [] e.k = "le" ->
           IF i = Len(s) + 1 \/ Ch(s, i) \in LineTerminators
           THEN MatchSeq(p, j + 1, s, i) ELSE 0
      [] e.k = "cls1" ->
           IF i <= Len(s) /\ Ch(s, i) \in e.c
           THEN GiveBack(p, j, s, i + 1, SkipWhile(s, i, e.c)) ELSE 0
      [] e.k = "ncls1" ->
           IF i <= Len(s) /\ Ch(s, i) \notin e.c
           THEN GiveBack(p, j, s, i + 1, SkipUntil(s, i, e.c)) ELSE 0
      [] e.k = "opt" ->
           OrElse(MatchSeq(e.q \o SubSeq(p, j + 1, Len(p)), 1, s, i),
                  MatchSeq(p, j + 1, s, i))
      [] e.k = "bol" ->
           OrElse(IF i = 1 THEN MatchSeq(p, j + 1, s, i) ELSE 0,
                  IF i <= Len(s) /\ Ch(s, i) = "\n"
                  THEN MatchSeq(p, j + 1, s, i + 1) ELSE 0)

MatchSeq(p, j, s, i) ==
    IF j > Len(p) THEN i ELSE MatchElement(p[j], p, j, s, i)

(***************************************************************************)
(* A regular expression is a sequence of alternatives, each a sequence of  *)
(* elements.  MatchAt tries the alternatives in order at one position.     *)
(***************************************************************************)
RECURSIVE MatchAlt(_, _, _, _)
MatchAlt(re, a, s, i) ==
    IF a > Len(re) THEN 0
    ELSE OrElse(MatchSeq(re[a], 1, s, i), MatchAlt(re, a + 1, s, i))

MatchAt(re, s, i) == MatchAlt(re, 1, s, i)

\* the characters a match of the alternative can begin with, when its first
\* element settles that
FirstCharsOf(alt) ==
    CASE alt[1].k = "lit" -> {Ch(alt[1].s, 1)}
      [] alt[1].k = "wb" /\ Len(alt) > 1 /\ alt[2].k = "lit" -> {Ch(alt[2].s, 1)}
      [] alt[1].k = "bol" -> {"\n"}
      [] OTHER -> {}
\* whether the first element of the alternative lets a match begin anywhere
\* (at the start of the text, for (^|\n))
StartsAnywhere(alt) == FirstCharsOf(alt) = {}
StartsAtTextStart(alt) == alt[1].k = "bol"

\* whether a match begins at position t; only the positions at which some
\* alternative can begin are tried
MatchBegins(re, s, t) ==
    /\ \/ \E a \in 1..Len(re) : StartsAnywhere(re[a])
       \/ t <= Len(s) /\ \E a \in 1..Len(re) : Ch(s, t) \in FirstCharsOf(re[a])
       \/ t = 1 /\ \E a \in 1..Len(re) : StartsAtTextStart(re[a])
    /\ MatchAt(re, s, t) # 0

\* the match that begins at position at
MatchFrom(re, s, at) == [at |-> at, end |-> MatchAt(re, s, at)]

\* the leftmost match at or after position i: [at, end], or at = 0
FindFrom(re, s, i) ==
    IF \E t \in i..(Len(s) + 1) : MatchBegins(re, s, t)
    THEN MatchFrom(re, s, CHOOSE t \in i..(Len(s) + 1) :
                              /\ MatchBegins(re, s, t)
                              /\ \A u \in i..(t - 1) : ~MatchBegins(re, s, u))
    ELSE [at |-> 0, end |-> 0]

\* RegExp.prototype.test
Test(re, s) == \E t \in 1..(Len(s) + 1) : MatchBegins(re, s, t)

RECURSIVE RemoveAllFrom(_, _, _)
\* the text kept before a match and what follows the match
KeepAndGoOn(kept, rest) ==
    [updated |-> kept \o rest.updated, changes |-> rest.changes + 1]

\* the match m removed from the text from position i on, and every later one
RemoveMatch(re, s, i, m) ==
    IF m.at = 0 THEN [updated |-> SubSeq(s, i, Len(s)), changes |-> 0]
    ELSE KeepAndGoOn(SubSeq(s, i, m.at - 1)
                       \o (IF m.end = m.at THEN SubSeq(s, m.at, m.at) ELSE ""),
                     RemoveAllFrom(re, s, IF m.end = m.at THEN m.at + 1 ELSE m.end))

\* String.prototype.replace with a global regular expression and a replacer
\* that returns '' and counts: the text from position i on with every match
\* removed, and the number of matches.
RemoveAllFrom(re, s, i) == RemoveMatch(re, s, i, FindFrom(re, s, i))

RemoveAll(re, s) == RemoveAllFrom(re, s, 1)

RECURSIVE MatchAllFrom(_, _, _)
\* the text of match m, and those of the later matches
MatchedAndLater(re, s, m) ==
    IF m.at = 0 \/ m.end = m.at THEN <<>>
    ELSE <<SubSeq(s, m.at, m.end - 1)>> \o MatchAllFrom(re, s, m.end)

\* String.prototype.match with a global regular expression: the matched
\* texts from position i on, in order (no pattern of the source matches the
\* empty text)
MatchAllFrom(re, s, i) == MatchedAndLater(re, s, FindFrom(re, s, i))

MatchAll(re, s) == MatchAllFrom(re, s, 1)

(***************************************************************************)
(* stripRepositoriesAndWrapper                                             *)
(***************************************************************************)
Block(kw) == <<Lit(kw), Ws0, Lit("{"), Lazy, Lit("}")>>

repoRegex == <<Block("repositories")>>
publishingRegex == <<Block("publishing")>>
uploadArchivesRegex ==
    << Block("uploadArchives"),
       <<Lit("task"), Ws1, Lit("uploadArchives"), Lazy, Lit("}")>> >>
modifyPomRegex == <<Block("modifyPom")>>
nexusConfigRegex == <<Block("nexus"), Block("nexusStaging")>>
signingRegex == <<Block("signing")>>
wrapperTaskRegex ==
    << <<Lit("task"), Ws1, Lit("wrapper"), WordB, Lazy, Lit("}")>>,
       <<Lit("tasks.register("), Ws0, Quote, Lit("wrapper"), Quote, Lazy, Lit("}")>>,
       <<WordB, Lit("wrapper"), Ws0, Lit("{"), Lazy, Lit("}")>> >>
applyVersionsRegex ==
    << <<Lit("apply"), Ws1, Lit("from:"), Ws0, Quote, Lit("versions.gradle"), Quote>> >>
extBlockRegex ==
    << <<StartOrNl, Ws0, Lit("ext"), Ws0, Lit("{"), Lazy, Lit("}")>> >>
nexusPropsRegex ==
    << <<Lit("uploadArchivesUrl"), Ws0, Lit("="), DotStar>>,
       <<Lit("nexusUsername"), Ws0, Lit("="), DotStar>>,
       <<Lit("nexusPassword"), Ws0, Lit("="), DotStar>>,
       <<Lit("nexusUrl"), Ws0, Lit("="), DotStar>> >>
mavenPublishPluginRegex ==
    << <<Lit("apply"), Ws1, Lit("plugin:"), Ws0, Quote, Lit("maven-publish"), Quote>> >>

\* the eleven replacements, in the order the function applies them
StripPatterns ==
    << repoRegex, publishingRegex, uploadArchivesRegex, modifyPomRegex,
       nexusConfigRegex, signingRegex, wrapperTaskRegex, applyVersionsRegex,
       extBlockRegex, nexusPropsRegex, mavenPublishPluginRegex >>

RECURSIVE StripFrom(_, _, _)
\* the replacements after the n-th, which has given r
StripOn(n, r, changes) == StripFrom(n + 1, r.updated, changes + r.changes)

StripFrom(n, updated, changes) ==
    IF n > Len(StripPatterns) THEN [updated |-> updated, changes |-> changes]
    ELSE StripOn(n, RemoveAll(StripPatterns[n], updated), changes)

stripRepositoriesAndWrapper(text) == StripFrom(1, text, 0)

(***************************************************************************)
(* ensureCommonLibPlugin                                                   *)
(***************************************************************************)
pluginsOpenRegex == << <<Lit("plugins"), Ws0, Lit("{")>> >>
hasPluginsBlockRegex == << <<Lit("plugins"), Ws0, Lit("{"), Lazy, Lit("}")>> >>
\* the presence test as it would be if it accepted double quotes only
hasCommonLibRegex_DoubleQuoteOnly ==
    << <<Lit("plugins"), Ws0, Lit("{"), Lazy, Lit("id"), Ws1, Lit("\""),
         Lit("common.lib"), Lit("\""), Lazy, Lit("}")>> >>
hasCommonLibRegex ==
    << <<Lit("plugins"), Ws0, Lit("{"), Lazy, Lit("id"), Ws1, Quote,
         Lit("common.lib"), Quote, Lazy, Lit("}")>> >>

\* text.replace(/plugins\s*\{/, m => `${m}\n    id 'common.lib'`), m the match
InsertPluginAfter(text, m) ==
    SubSeq(text, 1, m.end - 1) \o "\n    id 'common.lib'" \o SubSeq(text, m.end, Len(text))

ensureCommonLibPlugin(text) ==
    LET hasPluginsBlock == Test(hasPluginsBlockRegex, text)
        hasCommonLib == Test(hasCommonLibRegex, text)
    IN  IF hasCommonLib THEN [updated |-> text, changes |-> 0]
        ELSE IF hasPluginsBlock
             THEN [updated |-> InsertPluginAfter(text, FindFrom(pluginsOpenRegex, text, 1)),
                   changes |-> 1]
             ELSE [updated |-> "plugins {\n    id 'common.lib'\n}\n\n" \o text,
                   changes |-> 1]

(***************************************************************************)
(* String helpers: split, join, decimal formatting.                        *)
(***************************************************************************)
\* String.prototype.split with a one-character separator: the pieces
\* between consecutive occurrences of the separator
\* the k-th of the occurrences ps of the separator in s, counting the start
\* and the end of s as occurrences
Occurrence(s, ps, k) ==
    IF k = 0 THEN 0
    ELSE IF k = Cardinality(ps) + 1 THEN Len(s) + 1
    ELSE CHOOSE p \in ps : Cardinality({ q \in ps : q <= p }) = k
Pieces(s, ps) ==
    [k \in 1..(Cardinality(ps) + 1) |->
        SubSeq(s, Occurrence(s, ps, k - 1) + 1, Occurrence(s, ps, k) - 1)]
Split(s, sep) == Pieces(s, { i \in 1..Len(s) : Ch(s, i) = sep })

RECURSIVE Join(_, _)
\* Array.prototype.join (the two halves are joined, then put together)
Join(parts, sep) ==
    IF Len(parts) = 0 THEN ""
    ELSE IF Len(parts) = 1 THEN parts[1]
    ELSE LET half == Len(parts) \div 2
         IN  Join(SubSeq(parts, 1, half), sep) \o sep
               \o Join(SubSeq(parts, half + 1, Len(parts)), sep)

RECURSIVE ToDecimal(_)
\* a natural number interpolated into a template string
ToDecimal(n) ==
    IF n < 10 THEN Ch(DigitChars, n + 1)
    ELSE ToDecimal(n \div 10) \o Ch(DigitChars, (n % 10) + 1)

(***************************************************************************)
(* generateUnifiedDiff                                                     *)
(***************************************************************************)
Max(a, b) == IF a >= b THEN a ELSE b
Min(a, b) == IF a <= b THEN a ELSE b

\* the loop bound as it would be if the loop stopped at the shorter text
DiffLoopBound_Min(oldCount, newCount) == Min(oldCount, newCount)
\* the number of positions the loop of generateUnifiedDiff visits
DiffLoopBound(oldCount, newCount) == Max(oldCount, newCount)

RECURSIVE DiffBody(_, _, _, _)
\* the lines pushed by the loop for the 0-based positions i .. max - 1
DiffBody(oldLines, newLines, i, max) ==
    IF i >= max THEN <<>>
    ELSE LET hasO == i < Len(oldLines)
             hasN == i < Len(newLines)
             here == IF hasO /\ hasN /\ oldLines[i + 1] = newLines[i + 1]
                     THEN <<" " \o oldLines[i + 1]>>
                     ELSE (IF hasO THEN <<"-" \o oldLines[i + 1]>> ELSE <<>>)
                       \o (IF hasN THEN <<"+" \o newLines[i + 1]>> ELSE <<>>)
         IN  here \o DiffBody(oldLines, newLines, i + 1, max)

\* `@@ -1,${oldCount} +1,${newCount} @@\n`
HunkHeader(oldCount, newCount) ==
    "@@ -1," \o ToDecimal(oldCount) \o " +1," \o ToDecimal(newCount) \o " @@\n"

generateUnifiedDiff(old, new, fileRelPath) ==
    LET oldLines == Split(old, "\n")
        newLines == Split(new, "\n")
        oldCount == Len(oldLines)
        newCount == Len(newLines)
        header == "--- a/" \o fileRelPath \o "\n+++ b/" \o fileRelPath \o "\n"
        hunkHeader == HunkHeader(oldCount, newCount)
        body == <<hunkHeader>>
                    \o DiffBody(oldLines, newLines, 0, DiffLoopBound(oldCount, newCount))
    IN  header \o Join(body, "\n") \o "\n"

(***************************************************************************)
(* Application of a generated diff to the original text, as git apply and  *)
(* patch read a hunk: the lines after the two file headers and the hunk    *)
(* header are taken in order; a context line and a '-' line consume the    *)
(* next line of the original, which must be the line they carry; a context *)
(* line and a '+' line emit their line.  An empty line is a context line   *)
(* that carries the empty text.  The empty piece after the last newline of *)
(* the diff is no line.                                                    *)
(***************************************************************************)
RECURSIVE ApplyLines(_, _, _, _)
ApplyLines(hunk, k, oldLines, o) ==
    IF k > Len(hunk)
    THEN [ok |-> o = Len(oldLines) + 1, out |-> <<>>]
    ELSE LET line == hunk[k]
             mark == IF Len(line) = 0 THEN "" ELSE Ch(line, 1)
             text == SubSeq(line, 2, Len(line))
             consumes == mark \in {"", " ", "-"}
             emits == mark \in {"", " ", "+"}
             fits == ~consumes \/ (o <= Len(oldLines) /\ oldLines[o] = text)
             rest == ApplyLines(hunk, k + 1, oldLines, IF consumes THEN o + 1 ELSE o)
         IN  [ok |-> fits /\ rest.ok,
              out |-> (IF emits THEN <<text>> ELSE <<>>) \o rest.out]

ApplyDiffText(d, old) ==
    LET lines == Split(d, "\n")
        hunk == SubSeq(lines, 4, Len(lines) - 1)
        r == ApplyLines(hunk, 1, Split(old, "\n"), 1)
    IN  [ok |-> r.ok, text |-> Join(r.out, "\n")]

(***************************************************************************)
(* String helpers: lower case, substring test, replacement of a character. *)
(***************************************************************************)
\* the lower-case letter of every upper-case letter
LowerOf ==
    [c \in CharsOf(UpperCaseLetters) |->
        Ch(LowerCaseLetters,
           CHOOSE i \in 1..Len(UpperCaseLetters) : Ch(UpperCaseLetters, i) = c)]

LowerChar(c) == IF c \in DOMAIN LowerOf THEN LowerOf[c] ELSE c

RECURSIVE ToLowerCase(_)
\* String.prototype.toLowerCase
ToLowerCase(s) ==
    IF Len(s) = 0 THEN "" ELSE LowerChar(Ch(s, 1)) \o ToLowerCase(Tail(s))

\* String.prototype.includes
Includes(s, sub) ==
    \E i \in 1..(Len(s) - Len(sub) + 1) : SubSeq(s, i, i + Len(sub) - 1) = sub

RECURSIVE ReplaceChar(_, _, _)
\* String.prototype.replace(/c/g, by) for a single character c
ReplaceChar(s, c, by) ==
    IF Len(s) = 0 THEN ""
    ELSE (IF Ch(s, 1) = c THEN by ELSE Ch(s, 1)) \o ReplaceChar(Tail(s), c, by)

(***************************************************************************)
(* Configuration of the synthesizer.                                       *)
(***************************************************************************)
EXCLUDED_DEPENDENCIES == <<"gradle-nexus-plugin", "scalatest">>

EXCLUDED_VERSION_KEYS ==
    << "uploadArchivesUrl", "nexusUsername", "nexusPassword", "nexusUrl",
       "nexusRepo", "nexusSnapshots", "nexusReleases", "artifactoryUrl",
       "artifactoryUsername", "artifactoryPassword", "publishUrl",
       "publishUsername", "publishPassword", "mavenUrl", "mavenUsername",
       "mavenPassword", "repositoryUrl", "repositoryUsername",
       "repositoryPassword" >>

GRADLE_PLATFORM_PLUGINS ==
    << [alias |-> "plugin.publishing.artifactory",
        module |-> "ops.org.publishing-artifactory:ops.org.publishing-artifactory.gradle.plugin",
        versionRef |-> "plasmaGradlePlugins"],
       [alias |-> "plugin.repositories.artifactory",
        module |-> "ops.org.repositories-artifactory:ops.org.repositories-artifactory.gradle.plugin",
        versionRef |-> "plasmaGradlePlugins"] >>

GRADLE_PLATFORM_VERSION == "1.0.1-30"

(***************************************************************************)
(* normalizeAlias                                                          *)
(***************************************************************************)
\* group.replace(/^[a-z]+\./, ''): a leading run of lower-case letters that
\* is followed by a dot is removed together with the dot
StripGroupPrefix(group) ==
    LET e == SkipWhile(group, 1, CharsOf(LowerCaseLetters))
    IN  IF e > 1 /\ e <= Len(group) /\ Ch(group, e) = "."
        THEN SubSeq(group, e + 1, Len(group)) ELSE group

normalizeAlias(group, artifact) ==
    LET g == ReplaceChar(StripGroupPrefix(group), ".", "-")
        a == ReplaceChar(artifact, ".", "-")
    IN  g \o "." \o a

(***************************************************************************)
(* buildToml.  A Record<string, string> is a sequence of [k, v] entries in *)
(* insertion order with distinct keys; an absent optional string is "".    *)
(***************************************************************************)
Keys(rec) == { rec[i].k : i \in 1..Len(rec) }

\* rec[key] for a key the record holds
Lookup(rec, key) == rec[CHOOSE i \in 1..Len(rec) : rec[i].k = key].v

\* the own properties every object literal inherits from Object.prototype
ObjectPrototypeKeys ==
    { "constructor", "toString", "toLocaleString", "valueOf", "hasOwnProperty",
      "isPrototypeOf", "propertyIsEnumerable", "__proto__" }

\* the truthiness of rec[key] for a record created as an object literal
Truthy(rec, key) ==
    \/ key \in Keys(rec) /\ Lookup(rec, key) # ""
    \/ key \notin Keys(rec) /\ key \in ObjectPrototypeKeys

RECURSIVE ObjectAssign(_, _)
\* Object.assign(target, source): a key of the source overwrites the value
\* of the same key of the target in place, a new key is appended
ObjectAssign(target, source) ==
    IF Len(source) = 0 THEN target
    ELSE LET e == source[1]
             t == IF e.k \in Keys(target)
                  THEN [i \in 1..Len(target) |->
                          IF target[i].k = e.k THEN e ELSE target[i]]
                  ELSE Append(target, e)
         IN  ObjectAssign(t, Tail(source))

\* excluded.toLowerCase() for every element of the two lists
ExcludedDependenciesLower ==
    [n \in 1..Len(EXCLUDED_DEPENDENCIES) |-> ToLowerCase(EXCLUDED_DEPENDENCIES[n])]
ExcludedVersionKeysLower ==
    [n \in 1..Len(EXCLUDED_VERSION_KEYS) |-> ToLowerCase(EXCLUDED_VERSION_KEYS[n])]

\* EXCLUDED_DEPENDENCIES.some(excluded => s.toLowerCase().includes(excluded.toLowerCase()))
MatchesExcludedDependency(s) ==
    LET lower == ToLowerCase(s)
    IN  \E n \in 1..Len(EXCLUDED_DEPENDENCIES) :
            Includes(lower, ExcludedDependenciesLower[n])

\* EXCLUDED_VERSION_KEYS.some(excluded => k.toLowerCase().includes(excluded.toLowerCase()))
MatchesExcludedVersionKey(k) ==
    LET lower == ToLowerCase(k)
    IN  \E n \in 1..Len(EXCLUDED_VERSION_KEYS) :
            Includes(lower, ExcludedVersionKeysLower[n])

\* the test as it would be if excluded-dependency tokens were looked for in
\* the key only
VersionExcluded_KeyOnly(k, v) ==
    MatchesExcludedDependency(k) \/ MatchesExcludedVersionKey(k)
\* the test that keeps an entry of the merged versions out of [versions]
VersionExcluded(k, v) ==
    LET shouldExcludeDep == MatchesExcludedDependency(k) \/ MatchesExcludedDependency(v)
        shouldExcludeKey == MatchesExcludedVersionKey(k)
    IN  shouldExcludeDep \/ shouldExcludeKey

RECURSIVE VersionLines(_)
VersionLines(merged) ==
    IF Len(merged) = 0 THEN <<>>
    ELSE (IF ~VersionExcluded(merged[1].k, merged[1].v)
          THEN <<merged[1].k \o " = \"" \o merged[1].v \o "\"">> ELSE <<>>)
           \o VersionLines(Tail(merged))

RECURSIVE PlatformPluginLines(_)
PlatformPluginLines(n) ==
    IF n > Len(GRADLE_PLATFORM_PLUGINS) THEN <<>>
    ELSE LET plugin == GRADLE_PLATFORM_PLUGINS[n]
         IN  <<plugin.alias \o " = { module = \"" \o plugin.module
                   \o "\", version.ref = \"" \o plugin.versionRef \o "\" }">>
               \o PlatformPluginLines(n + 1)

RECURSIVE ReferenceLibraryLines(_)
\* `${alias} = ${JSON.stringify(libDef)}` for a libDef that is a string
\* without characters JSON escapes
ReferenceLibraryLines(libraries) ==
    IF Len(libraries) = 0 THEN <<>>
    ELSE <<libraries[1].k \o " = \"" \o libraries[1].v \o "\"">>
           \o ReferenceLibraryLines(Tail(libraries))

\* the version part of a library line: a reference when versions[d.version]
\* is truthy, else a literal, else nothing
VersionPart(vers, d) ==
    IF d.version # "" /\ Truthy(vers, d.version)
    THEN ", version.ref = \"" \o d.version \o "\""
    ELSE IF d.version # "" THEN ", version = \"" \o d.version \o "\"" ELSE ""

\* whether the loop over deps pushes a line for d
DependencyEmitted(d) ==
    /\ d.group # ""
    /\ d.artifact # ""
    /\ ~(MatchesExcludedDependency(d.group) \/ MatchesExcludedDependency(d.artifact))

RECURSIVE DependencyLines(_, _)
DependencyLines(vers, ds) ==
    IF Len(ds) = 0 THEN <<>>
    ELSE LET d == ds[1]
         IN  (IF DependencyEmitted(d)
              THEN <<normalizeAlias(d.group, d.artifact) \o " = { group = \""
                        \o d.group \o "\", name = \"" \o d.artifact \o "\""
                        \o VersionPart(vers, d) \o " }">>
              ELSE <<>>)
               \o DependencyLines(vers, Tail(ds))

buildToml(vers, ds, ref) ==
    LET mergedVersions == IF ref # None THEN ObjectAssign(vers, ref.versions) ELSE vers
        lines ==
            <<"[versions]">>
              \o <<"plasmaGradlePlugins = \"" \o GRADLE_PLATFORM_VERSION \o "\"">>
              \o VersionLines(mergedVersions)
              \o <<"\n[libraries]">>
              \o PlatformPluginLines(1)
              \o (IF ref # None THEN ReferenceLibraryLines(ref.libraries) ELSE <<>>)
              \o DependencyLines(vers, ds)
              \o <<"\n[plugins]">>
              \o <<"publishing.artifactory = { id = \"com.org.publishing-artifactory\", version = \"1.0.0\" }">>
              \o <<"repositories.artifactory = { id = \"com.org.repositories-artifactory\", version = \"1.0.0\" }">>
              \o <<"scoverage = { id = \"org.scoverage\", version = \"8.1.3\" }">>
    IN  Join(lines, "\n") \o "\n"

(***************************************************************************)
(* Input texts: concatenations of at most n lexemes of a lexeme set.       *)
(***************************************************************************)
RECURSIVE Texts(_, _)
Texts(lexemes, n) ==
    IF n = 0 THEN {""}
    ELSE LET shorter == Texts(lexemes, n - 1)
         IN  shorter \cup { t \o l : t \in shorter, l \in lexemes }

MaxStripLexemes == 6
StripLexemes == {"repositories", "signing", "{", "}", "\n"}
\* a repositories block, and a publishing block that nests a repositories
\* block with a maven block
NestedPublishingText ==
    "repositories {\n    mavenCentral()\n}\npublishing {\n    repositories {\n        maven {\n            url 'http://legacy/'\n        }\n    }\n}\n"
StripScenarios ==
    { NestedPublishingText,
      "repositories { mavenCentral() }\npublishing { repositories { maven { url 'http://legacy/' } } } }\n",
      "apply plugin: 'maven-publish'\nnexusUrl = 'http://nexus/'\ndependencies { }\n" }
StripInputs == Texts(StripLexemes, MaxStripLexemes) \cup StripScenarios

MaxInjectLexemes == 5
InjectLexemes == {"plugins", "{", "}", "id 'common.lib'", "\n"}
\* a plugins block without the declaration, and the declaration in a later
\* block
DeclarationOutsideText ==
    "plugins {\n    id 'java'\n}\ntasks.register('hint') {\n    println \"add id 'common.lib' to plugins\"\n}\n"
InjectScenarios ==
    { "plugins {\n    id 'java'\n}\n", "apply plugin: 'java'\n",
      "plugins { id \"common.lib\" }\n", DeclarationOutsideText }
InjectInputs == Texts(InjectLexemes, MaxInjectLexemes) \cup InjectScenarios

MaxDiffLexemes == 4
DiffLexemes == {"a", "+", "\n"}
DiffInputs == Texts(DiffLexemes, MaxDiffLexemes)

(***************************************************************************)
(* The migrate command of the extension.  An invocation first looks for    *)
(* migration-state.json in the meta directory and either resumes after the *)
(* workspace update or starts from the beginning: prompts, clone, save of  *)
(* the state, workspace update (which may restart the extension host),     *)
(* parse, plan, review.  Time is the value of Date.now() in milliseconds;  *)
(* the clock of the model advances by minutes.                             *)
(***************************************************************************)
\* 5 * 60 * 1000
FreshnessWindowMs == 5 * 60 * 1000
TickMs == 60 * 1000
MaxTicks == 6
MaxInvocations == 2

WorkspacePaths == {"workspace/repoA", "workspace/repoB"}
DefaultCommitMessage == "chore: migrate Nexus to JFrog"

\* a state file whose content JSON.parse rejects
CorruptState == [corrupt |-> TRUE]

\* the object written to migration-state.json before the workspace update
SavedState(workspacePath, commitMessage, timestamp) ==
    [step |-> "workspace_updated", workspacePath |-> workspacePath,
     commitMessage |-> commitMessage, timestamp |-> timestamp]

\* what an invocation can find at the path of the state file: nothing, an
\* unreadable file, a state written by this command, a state of a step this
\* command does not know, and a state that has no timestamp
StateFileChoices ==
    {None, CorruptState}
      \cup {SavedState(w, DefaultCommitMessage, 0) : w \in WorkspacePaths}
      \cup {[step |-> "patches_generated", workspacePath |-> w,
             commitMessage |-> DefaultCommitMessage, timestamp |-> 0] : w \in WorkspacePaths}
      \cup {[step |-> "workspace_updated", workspacePath |-> w,
             commitMessage |-> DefaultCommitMessage] : w \in WorkspacePaths}

\* timeDiff < 5 * 60 * 1000, where timeDiff is NaN for a state without timestamp
IsRecent(migrationState, t) ==
    /\ "timestamp" \in DOMAIN migrationState
    /\ t - migrationState.timestamp < FreshnessWindowMs

\* the check of the state file at the start of the command: whether the run
\* resumes, and the state file the check leaves
StateCheck(file, t) ==
    IF file = None THEN [resume |-> FALSE, file |-> None]
    ELSE IF file = CorruptState THEN [resume |-> FALSE, file |-> None]
    ELSE IF IsRecent(file, t)
         THEN IF file.step = "workspace_updated"
              THEN [resume |-> TRUE, file |-> file]
              ELSE [resume |-> FALSE, file |-> file]
         ELSE [resume |-> FALSE, file |-> None]

\* where the command goes after the clone, as it would without the save
AfterClone_SkipSave(isAlreadyOpen) ==
    IF isAlreadyOpen THEN "parse" ELSE "updateWorkspace"
\* where the command goes after the clone
AfterClone(isAlreadyOpen) == IF isAlreadyOpen THEN "parse" ELSE "saveState"

\* what executeStepByStepMigration does when generatePatches calls it: it
\* throws, or it returns the changed files and the risk summary
MigrationThrows == [threw |-> TRUE]
MigrationOutcomes ==
    {MigrationThrows,
     [filesChanged |-> <<"gradle/libs.versions.toml">>,
      riskSummary |-> "low=1, medium=1, high=0"],
     [filesChanged |-> <<"settings.gradle", "gradle/libs.versions.toml", "app/build.gradle">>,
      riskSummary |-> "low=2, medium=2, high=0"]}

generatePatches(r) ==
    [patchText |-> "", filesChanged |-> r.filesChanged, riskSummary |-> r.riskSummary]

UserActions == {"Review Changes", "Apply Patches", "Open Terminal", "dismissed"}

IdleScan ==
    /\ failing = {}
    /\ parserScan = None
    /\ plannerScan = None

IdleCommand ==
    /\ stateFile = None
    /\ now = 0
    /\ cmd = "off"
    /\ foundState = None
    /\ resumed = FALSE
    /\ prompted = FALSE
    /\ cloned = FALSE
    /\ workspace = None
    /\ patchFile = None
    /\ planResult = None
    /\ ended = "none"
    /\ invocations = 0

IdleText == content = "" /\ first = None /\ second = None
IdleDiff == oldText = "" /\ newText = "" /\ diff = None /\ patched = None
IdleToml == versions = <<>> /\ deps = <<>> /\ referenceContext = None /\ toml = None
IdleRun ==
    /\ files = <<>>
    /\ meta = None
    /\ pc = "idle"
    /\ filesChanged = <<>>
    /\ lowRisk = 0
    /\ mediumRisk = 0
    /\ highRisk = 0
    /\ buildFiles = <<>>
    /\ idx = 0
    /\ lastAI = "none"
    /\ aiFailed = FALSE
    /\ runs = 0
    /\ result = None

(***************************************************************************)
(* Inputs of the synthesizer: records of at most MaxVersions version       *)
(* variables and lists of at most MaxDeps dependency declarations, of the  *)
(* shapes extractVersionsFromExt and extractDependencies return.           *)
(***************************************************************************)
MaxVersions == 1
MaxDeps == 2

VersionKeyChoices == {"kotlin", "junit", "scalatestVersion", "myNexusURL", "plasmaGradlePlugins"}
VersionValueChoices == {"1.2.3", "3.0-ScalaTest", "nexusUrl"}

RECURSIVE Records(_, _, _)
\* the records with at most n entries, keys and values from the given sets
Records(keys, values, n) ==
    IF n = 0 THEN {<<>>}
    ELSE LET shorter == Records(keys, values, n - 1)
             longer == { Append(r, [k |-> key, v |-> val]) :
                           r \in shorter, key \in keys, val \in values }
         IN  shorter \cup { r \in longer : Cardinality(Keys(r)) = Len(r) }

DepChoices ==
    { [group |-> "org.example", artifact |-> "foo", version |-> "1.2.3"],
      [group |-> "org.example", artifact |-> "foo", version |-> "kotlin"],
      [group |-> "com.example", artifact |-> "foo", version |-> ""],
      [group |-> "org.scalatest", artifact |-> "scalatest", version |-> "3.0"],
      [group |-> "", artifact |-> "", version |-> ""] }

RECURSIVE Lists(_, _)
\* the lists of at most n elements of a set
Lists(S, n) ==
    IF n = 0 THEN {<<>>}
    ELSE LET shorter == Lists(S, n - 1)
         IN  shorter \cup { Append(l, x) : l \in shorter, x \in S }

ReferenceChoices ==
    { None,
      [versions |-> <<[k |-> "kotlin", v |-> "2.0"], [k |-> "refOnly", v |-> "scalatest"],
                     [k |-> "NEXUSURL", v |-> "3.1"]>>,
       libraries |-> <<[k |-> "kotlin-stdlib", v |-> "{ module"]>>] }

(***************************************************************************)
(* The stripper applied to a text, and again to its own output.            *)
(***************************************************************************)
InitStrip ==
    /\ content \in StripInputs
    /\ first = None
    /\ second = None
    /\ IdleDiff
    /\ IdleToml
    /\ IdleRun
    /\ IdleCommand
    /\ IdleScan

StripOnce ==
    /\ first = None
    /\ first' = stripRepositoriesAndWrapper(content)
    /\ UNCHANGED <<content, second, diffVars, tomlVars, runVars, cmdVars, scanVars>>

StripAgain ==
    /\ first # None
    /\ second = None
    /\ second' = stripRepositoriesAndWrapper(first.updated)
    /\ UNCHANGED <<content, first, diffVars, tomlVars, runVars, cmdVars, scanVars>>

NextStrip == StripOnce \/ StripAgain

SpecStrip == InitStrip /\ [][NextStrip]_vars

(***************************************************************************)
(* The plugin injector applied to a text, and again to its own output.     *)
(***************************************************************************)
InitInject ==
    /\ content \in InjectInputs
    /\ first = None
    /\ second = None
    /\ IdleDiff
    /\ IdleToml
    /\ IdleRun
    /\ IdleCommand
    /\ IdleScan

InjectOnce ==
    /\ first = None
    /\ first' = ensureCommonLibPlugin(content)
    /\ UNCHANGED <<content, second, diffVars, tomlVars, runVars, cmdVars, scanVars>>

InjectAgain ==
    /\ first # None
    /\ second = None
    /\ second' = ensureCommonLibPlugin(first.updated)
    /\ UNCHANGED <<content, first, diffVars, tomlVars, runVars, cmdVars, scanVars>>

NextInject == InjectOnce \/ InjectAgain

SpecInject == InitInject /\ [][NextInject]_vars

(***************************************************************************)
(* The diff generator applied to a pair of texts, and the diff applied to  *)
(* the original text.                                                      *)
(***************************************************************************)
InitDiff ==
    /\ oldText \in DiffInputs
    /\ newText \in DiffInputs
    /\ diff = None
    /\ patched = None
    /\ IdleText
    /\ IdleToml
    /\ IdleRun
    /\ IdleCommand
    /\ IdleScan

GenerateDiff ==
    /\ diff = None
    /\ diff' = [text |-> generateUnifiedDiff(oldText, newText, "build.gradle")]
    /\ UNCHANGED <<oldText, newText, patched, textVars, tomlVars, runVars, cmdVars, scanVars>>

ApplyDiff ==
    /\ diff # None
    /\ patched = None
    /\ patched' = ApplyDiffText(diff.text, oldText)
    /\ UNCHANGED <<oldText, newText, diff, textVars, tomlVars, runVars, cmdVars, scanVars>>

NextDiff == GenerateDiff \/ ApplyDiff

SpecDiff == InitDiff /\ [][NextDiff]_vars

(***************************************************************************)
(* The synthesizer applied to extracted versions and dependencies.         *)
(***************************************************************************)
InitToml ==
    /\ versions \in Records(VersionKeyChoices, VersionValueChoices, MaxVersions)
    /\ deps \in Lists(DepChoices, MaxDeps)
    /\ referenceContext \in ReferenceChoices
    /\ toml = None
    /\ IdleText
    /\ IdleDiff
    /\ IdleRun
    /\ IdleCommand
    /\ IdleScan

BuildToml ==
    /\ toml = None
    /\ toml' = [text |-> buildToml(versions, deps, referenceContext)]
    /\ UNCHANGED <<versions, deps, referenceContext, textVars, diffVars, runVars, cmdVars, scanVars>>

NextToml == BuildToml

SpecToml == InitToml /\ [][NextToml]_vars

(***************************************************************************)
(* The project tree: a function from the project-relative path of every    *)
(* file that exists to the text of the file.                               *)
(***************************************************************************)
SettingsPath == "settings.gradle"
RootBuildPath == "build.gradle"
VersionsGradlePath == "versions.gradle"
TomlPath == "gradle/libs.versions.toml"
WrapperPath == "gradle/wrapper/gradle-wrapper.properties"

\* fs.existsSync
Exists(tree, p) == p \in DOMAIN tree
\* fs.writeFileSync
WriteFile(tree, p, text) ==
    [q \in DOMAIN tree \cup {p} |-> IF q = p THEN text ELSE tree[q]]
\* fs.unlinkSync
Unlink(tree, p) == [q \in DOMAIN tree \ {p} |-> tree[q]]

\* the names of files and directories, in the order fs.readdirSync lists
\* the entries of a directory (by name)
ListingOrder ==
    << ".copilot", ".git", ".gradle", "app", "build", "build.gradle", "build.gradle.kts",
       "buildSrc",
       "common.lib.gradle", "gradle", "gradle-wrapper.properties", "groovy",
       "legacy.gradle", "lib", "libs.versions.toml", "main", "meta", "settings.gradle", "src",
       "versions.gradle", "wrapper" >>

\* the directories findAllBuildGradleFiles does not enter
PrunedDirectories == {".git", ".copilot", "build", ".gradle"}

\* /build\.gradle$/.test(name)
IsBuildGradleName(name) ==
    Len(name) >= Len("build.gradle")
      /\ SubSeq(name, Len(name) - Len("build.gradle") + 1, Len(name)) = "build.gradle"

\* path.join of a directory (a sequence of names) and a name
PathOf(dir, name) == Join(Append(dir, name), "/")

\* the paths of the files of the tree, each as its sequence of names
PathsOf(tree) == { Split(q, "/") : q \in DOMAIN tree }

\* the names of the entries of directory dir, and those that are directories
EntryNames(paths, dir) ==
    { p[Len(dir) + 1] :
        p \in { q \in paths : Len(q) > Len(dir) /\ SubSeq(q, 1, Len(dir)) = dir } }
DirectoryNames(paths, dir) ==
    { p[Len(dir) + 1] :
        p \in { q \in paths : Len(q) > Len(dir) + 1 /\ SubSeq(q, 1, Len(dir)) = dir } }

\* the loop over the entries of one directory, in listing order: the
\* directories it pushes and the files it adds
ScanEntries(paths, dir) ==
    LET entries == EntryNames(paths, dir)
        directories == DirectoryNames(paths, dir)
        dirs == SelectSeq(ListingOrder,
                          LAMBDA name : name \in directories
                                          /\ name \notin PrunedDirectories)
        names == SelectSeq(ListingOrder,
                           LAMBDA name : name \in entries \ directories
                                           /\ IsBuildGradleName(name))
    IN  [pushed |-> [n \in 1..Len(dirs) |-> Append(dir, dirs[n])],
         found |-> [n \in 1..Len(names) |-> PathOf(dir, names[n])]]

RECURSIVE ScanStack(_, _, _)
\* the while loop: the directory on top of the stack is popped and listed
ScanStack(paths, stack, found) ==
    IF Len(stack) = 0 THEN found
    ELSE LET dir == stack[Len(stack)]
             r == ScanEntries(paths, dir)
         IN  ScanStack(paths, SubSeq(stack, 1, Len(stack) - 1) \o r.pushed,
                       found \o r.found)

\* the scan as it would be without the look for versions.gradle in the root
findAllBuildGradleFiles_WithoutVersionsGradle(tree) ==
    ScanStack(PathsOf(tree), << <<>> >>, <<>>)
findAllBuildGradleFiles(tree) ==
    ScanStack(PathsOf(tree), << <<>> >>,
              IF Exists(tree, "versions.gradle") THEN <<"versions.gradle">> ELSE <<>>)

\* what a scan gives when readdirSync throws
Threw == [threw |-> TRUE]

RECURSIVE ScanStackReading(_, _, _, _)
\* the while loop of findAllBuildGradleFiles when readdirSync throws on the
\* directories of unreadable: nothing catches the exception
ScanStackReading(paths, stack, found, unreadable) ==
    IF Len(stack) = 0 THEN [files |-> found]
    ELSE IF stack[Len(stack)] \in unreadable THEN Threw
    ELSE ScanStackReading(paths,
                          SubSeq(stack, 1, Len(stack) - 1)
                            \o ScanEntries(paths, stack[Len(stack)]).pushed,
                          found \o ScanEntries(paths, stack[Len(stack)]).found,
                          unreadable)

findAllBuildGradleFilesReading(tree, unreadable) ==
    ScanStackReading(PathsOf(tree), << <<>> >>,
                     IF Exists(tree, "versions.gradle") THEN <<"versions.gradle">> ELSE <<>>,
                     unreadable)

\* /build\.gradle(\.kts)?$/.test(name)
IsGradleFileName(name) ==
    \/ IsBuildGradleName(name)
    \/ /\ Len(name) >= Len("build.gradle.kts")
       /\ SubSeq(name, Len(name) - Len("build.gradle.kts") + 1, Len(name)) = "build.gradle.kts"

\* the loop of findGradleFiles over the entries of one directory: every
\* directory is pushed
ParserEntries(paths, dir) ==
    LET entries == EntryNames(paths, dir)
        directories == DirectoryNames(paths, dir)
        dirs == SelectSeq(ListingOrder, LAMBDA name : name \in directories)
        names == SelectSeq(ListingOrder,
                           LAMBDA name : name \in entries \ directories
                                           /\ IsGradleFileName(name))
    IN  [pushed |-> [n \in 1..Len(dirs) |-> Append(dir, dirs[n])],
         found |-> [n \in 1..Len(names) |-> PathOf(dir, names[n])]]

RECURSIVE ParserStack(_, _, _, _)
ParserStack(paths, stack, found, unreadable) ==
    IF Len(stack) = 0 THEN [files |-> found]
    ELSE IF stack[Len(stack)] \in unreadable THEN Threw
    ELSE ParserStack(paths,
                     SubSeq(stack, 1, Len(stack) - 1)
                       \o ParserEntries(paths, stack[Len(stack)]).pushed,
                     found \o ParserEntries(paths, stack[Len(stack)]).found,
                     unreadable)

findGradleFiles(tree, unreadable) == ParserStack(PathsOf(tree), << <<>> >>, <<>>, unreadable)

(***************************************************************************)
(* extractVersionsFromExt and extractDependencies                          *)
(***************************************************************************)
\* [A-Za-z0-9_\.\-]
NameChars == WordChars \cup {".", "-"}
\* [A-Za-z]
Letters == CharsOf(UpperCaseLetters) \cup CharsOf(LowerCaseLetters)

\* out[key] = value on a record
SetKey(rec, key, value) == ObjectAssign(rec, <<[k |-> key, v |-> value]>>)

\* /ext\s*\{([\s\S]*?)\}/g
extBlocksRegex == << <<Lit("ext"), Ws0, Lit("{"), Lazy, Lit("}")>> >>
\* /dependencies\s*\{([\s\S]*?)\}/g
dependenciesBlocksRegex == << <<Lit("dependencies"), Ws0, Lit("{"), Lazy, Lit("}")>> >>
\* /project\.ext\.([A-Za-z0-9_\.\-]+)\s*=\s*['"]([^'"]+)['"]/g
projAssignRegex ==
    << <<Lit("project.ext."), Cls1(NameChars), Ws0, Lit("="), Ws0, Quote,
         NotCls1(QuoteChars), Quote>> >>

\* b.replace(/^[^{]*\{/, '').replace(/\}[^}]*$/, ''): the text after the
\* first '{' and before the last '}'
BeforeLastClose(afterOpen, closes) ==
    IF closes = {} THEN afterOpen ELSE SubSeq(afterOpen, 1, MaxPos(closes) - 1)
AfterFirstOpen(b, open) == IF open <= Len(b) THEN SubSeq(b, open + 1, Len(b)) ELSE b
ClosesOf(afterOpen) == { i \in 1..Len(afterOpen) : Ch(afterOpen, i) = "}" }
BlockBody(b) ==
    BeforeLastClose(AfterFirstOpen(b, SkipUntil(b, 1, {"{"})),
                    ClosesOf(AfterFirstOpen(b, SkipUntil(b, 1, {"{"}))))

\* body.split(/\r?\n/)
WithoutCarriageReturns(pieces) ==
    [n \in 1..Len(pieces) |->
       IF n < Len(pieces) /\ Len(pieces[n]) > 0 /\ Ch(pieces[n], Len(pieces[n])) = "\r"
       THEN SubSeq(pieces[n], 1, Len(pieces[n]) - 1) ELSE pieces[n]]
SplitLines(body) == WithoutCarriageReturns(Split(body, "\n"))

\* line.match(/^(\s*)([A-Za-z0-9_\.\-]+)\s*[:=]\s*['"]([^'"]+)['"]/):
\* [ok, key, value]
\* k1, k2: the key; s1: the separator; s2: the opening quote; v2: the
\* closing quote
VersionLineValue(line, k1, k2, s1, s2, v2) ==
    IF /\ k2 > k1
       /\ s1 <= Len(line) /\ Ch(line, s1) \in {":", "="}
       /\ s2 <= Len(line) /\ Ch(line, s2) \in QuoteChars
       /\ v2 > s2 + 1 /\ v2 <= Len(line)
    THEN [ok |-> TRUE, key |-> SubSeq(line, k1, k2 - 1),
          value |-> SubSeq(line, s2 + 1, v2 - 1)]
    ELSE [ok |-> FALSE, key |-> "", value |-> ""]
VersionLineQuote(line, k1, k2, s1, s2) ==
    VersionLineValue(line, k1, k2, s1, s2, SkipUntil(line, s2 + 1, QuoteChars))
VersionLineSeparator(line, k1, k2, s1) ==
    VersionLineQuote(line, k1, k2, s1, SkipWhile(line, s1 + 1, WhiteSpace))
VersionLineKey(line, k1, k2) ==
    VersionLineSeparator(line, k1, k2, SkipWhile(line, k2, WhiteSpace))
VersionLineIndent(line, k1) == VersionLineKey(line, k1, SkipWhile(line, k1, NameChars))
VersionLineMatch(line) == VersionLineIndent(line, SkipWhile(line, 1, WhiteSpace))

RECURSIVE VersionsOfLines(_, _, _)
\* the match m of line n, then the later lines
VersionsOfLine(lines, n, out, m) ==
    VersionsOfLines(lines, n + 1, IF m.ok THEN SetKey(out, m.key, m.value) ELSE out)
VersionsOfLines(lines, n, out) ==
    IF n > Len(lines) THEN out
    ELSE VersionsOfLine(lines, n, out, VersionLineMatch(lines[n]))

RECURSIVE VersionsOfBlocks(_, _, _)
VersionsOfBlocks(blocks, n, out) ==
    IF n > Len(blocks) THEN out
    ELSE VersionsOfBlocks(blocks, n + 1,
                          VersionsOfLines(SplitLines(BlockBody(blocks[n])), 1, out))

\* the two captures of a text matched by projAssignRegex
ProjAssignCaptures(a, k1, k2) ==
    [key |-> SubSeq(a, k1, k2 - 1),
     value |-> SubSeq(a, SkipUntil(a, k2, QuoteChars) + 1, Len(a) - 1)]
ProjAssignMatch(a) ==
    ProjAssignCaptures(a, Len("project.ext.") + 1,
                       SkipWhile(a, Len("project.ext.") + 1, NameChars))

RECURSIVE VersionsOfAssignments(_, _, _)
\* the captures m of assignment n, then the later assignments
VersionsOfAssignment(assigns, n, out, m) ==
    VersionsOfAssignments(assigns, n + 1, SetKey(out, m.key, m.value))
VersionsOfAssignments(assigns, n, out) ==
    IF n > Len(assigns) THEN out
    ELSE VersionsOfAssignment(assigns, n, out, ProjAssignMatch(assigns[n]))

extractVersionsFromExt(text) ==
    LET blocks == MatchAll(extBlocksRegex, text)
        projAssign == MatchAll(projAssignRegex, text)
    IN  VersionsOfAssignments(projAssign, 1, VersionsOfBlocks(blocks, 1, <<>>))

\* the coordinate match of a dependency line:
\* /^(\s*)([A-Za-z]+)\s+(['"])((?:@?)[A-Za-z0-9_\-.]+):([A-Za-z0-9_\-.]+)(?::([A-Za-z0-9_\-.]+))?\3/
\* [ok, group, artifact, version], version "" when the group did not take part
\* c1, c2: the configuration; q: the opening quote; g2, g3: the group
\* after an optional '@'; a2: the end of the artifact; v2: that of the
\* version
CoordinateHead(line, c1, c2, q, g2, g3, a2) ==
    /\ c2 > c1 /\ q > c2
    /\ q <= Len(line) /\ Ch(line, q) \in QuoteChars
    /\ g3 > g2
    /\ g3 <= Len(line) /\ Ch(line, g3) = ":"
    /\ a2 > g3 + 1
CoordinateVersion(line, c1, c2, q, g2, g3, a2, v2) ==
    IF /\ CoordinateHead(line, c1, c2, q, g2, g3, a2)
       /\ a2 <= Len(line) /\ Ch(line, a2) = ":"
       /\ v2 > a2 + 1
       /\ v2 <= Len(line) /\ Ch(line, v2) = Ch(line, q)
    THEN [ok |-> TRUE, group |-> SubSeq(line, q + 1, g3 - 1),
          artifact |-> SubSeq(line, g3 + 1, a2 - 1),
          version |-> SubSeq(line, a2 + 1, v2 - 1)]
    ELSE IF /\ CoordinateHead(line, c1, c2, q, g2, g3, a2)
            /\ a2 <= Len(line) /\ Ch(line, a2) = Ch(line, q)
    THEN [ok |-> TRUE, group |-> SubSeq(line, q + 1, g3 - 1),
          artifact |-> SubSeq(line, g3 + 1, a2 - 1), version |-> ""]
    ELSE [ok |-> FALSE, group |-> "", artifact |-> "", version |-> ""]
CoordinateArtifact(line, c1, c2, q, g2, g3, a2) ==
    CoordinateVersion(line, c1, c2, q, g2, g3, a2, SkipWhile(line, a2 + 1, NameChars))
CoordinateGroup(line, c1, c2, q, g2, g3) ==
    CoordinateArtifact(line, c1, c2, q, g2, g3, SkipWhile(line, g3 + 1, NameChars))
CoordinateScope(line, c1, c2, q, g2) ==
    CoordinateGroup(line, c1, c2, q, g2, SkipWhile(line, g2, NameChars))
CoordinateQuote(line, c1, c2, q) ==
    CoordinateScope(line, c1, c2, q,
                    IF q + 1 <= Len(line) /\ Ch(line, q + 1) = "@" THEN q + 2 ELSE q + 1)
CoordinateConfiguration(line, c1, c2) ==
    CoordinateQuote(line, c1, c2, SkipWhile(line, c2, WhiteSpace))
CoordinateIndent(line, c1) == CoordinateConfiguration(line, c1, SkipWhile(line, c1, Letters))
CoordinateMatch(line) == CoordinateIndent(line, SkipWhile(line, 1, WhiteSpace))

\* line.match(/^(\s*)([A-Za-z]+)\s+project\(['"][^'"]+['"]\)/)
\* c1, c2: the configuration; p: the word project; q: the opening quote
ProjectDependencyPath(line, c1, c2, p, q, e) ==
    /\ c2 > c1 /\ p > c2
    /\ q - 1 <= Len(line) /\ SubSeq(line, p, q - 1) = "project("
    /\ q <= Len(line) /\ Ch(line, q) \in QuoteChars
    /\ e > q + 1
    /\ e + 1 <= Len(line) /\ Ch(line, e + 1) = ")"
ProjectDependencyWord(line, c1, c2, p) ==
    ProjectDependencyPath(line, c1, c2, p, p + Len("project("),
                          SkipUntil(line, p + Len("project(") + 1, QuoteChars))
ProjectDependencyConfiguration(line, c1, c2) ==
    ProjectDependencyWord(line, c1, c2, SkipWhile(line, c2, WhiteSpace))
ProjectDependencyIndent(line, c1) ==
    ProjectDependencyConfiguration(line, c1, SkipWhile(line, c1, Letters))
ProjectDependencyMatch(line) == ProjectDependencyIndent(line, SkipWhile(line, 1, WhiteSpace))

RECURSIVE DependenciesOfLines(_, _)
\* the records pushed for the lines n.. of a block body, with the fields
\* buildToml reads (a project dependency has none of them)
DependenciesOfLine(line, m) ==
    IF m.ok
    THEN <<[group |-> m.group, artifact |-> m.artifact, version |-> m.version]>>
    ELSE IF ProjectDependencyMatch(line)
    THEN <<[group |-> "", artifact |-> "", version |-> ""]>>
    ELSE <<>>
DependenciesOfLines(lines, n) ==
    IF n > Len(lines) THEN <<>>
    ELSE DependenciesOfLine(lines[n], CoordinateMatch(lines[n]))
           \o DependenciesOfLines(lines, n + 1)

RECURSIVE DependenciesOfBlocks(_, _)
DependenciesOfBlocks(blocks, n) ==
    IF n > Len(blocks) THEN <<>>
    ELSE DependenciesOfLines(SplitLines(BlockBody(blocks[n])), 1)
           \o DependenciesOfBlocks(blocks, n + 1)

extractDependencies(text) ==
    DependenciesOfBlocks(MatchAll(dependenciesBlocksRegex, text), 1)

(***************************************************************************)
(* Step 1: the minimal settings.gradle                                     *)
(***************************************************************************)
\* /^\s*rootProject\.name\s*=\s*.*$/m
rootNameLineRegex ==
    << <<LineStart, Ws0, Lit("rootProject.name"), Ws0, Lit("="), Ws0, DotStar, LineEnd>> >>
\* /^\s*include\s+.*$/gm
includeLinesRegex == << <<LineStart, Ws0, Lit("include"), Ws1, DotStar, LineEnd>> >>

\* path.basename(projectRoot)
ProjectName == "demo"

\* rootNameLineMatch ? rootNameLineMatch[0] : `rootProject.name = '${projectName}'`
RootNameLine(original, rootNameLineMatch) ==
    IF rootNameLineMatch.at # 0 /\ rootNameLineMatch.end > rootNameLineMatch.at
    THEN SubSeq(original, rootNameLineMatch.at, rootNameLineMatch.end - 1)
    ELSE "rootProject.name = '" \o ProjectName \o "'"

MinimalSettings(original) ==
    Join(<<RootNameLine(original, FindFrom(rootNameLineRegex, original, 1))>>
           \o MatchAll(includeLinesRegex, original), "\n") \o "\n"

(***************************************************************************)
(* Step 4: gradle-wrapper.properties from the meta template, with the      *)
(* Gradle version of the project's own wrapper                             *)
(***************************************************************************)
\* /distributionUrl=.*gradle-([0-9]+\.[0-9]+(?:\.[0-9]+)?)-/
distributionUrlRegex ==
    << <<Lit("distributionUrl="), DotStar, Lit("gradle-"), Cls1(CharsOf(DigitChars)),
         Lit("."), Cls1(CharsOf(DigitChars)),
         Opt(<<Lit("."), Cls1(CharsOf(DigitChars))>>), Lit("-")>> >>

\* the capture of a text m matched by distributionUrlRegex: the digits and
\* dots between the last 'gradle-' and the final '-'
VersionCapture(m) ==
    SubSeq(m, MaxPos({ i \in 1..(Len(m) - 1) :
                         Ch(m, i) \notin CharsOf(DigitChars) \cup {"."} }) + 1,
           Len(m) - 1)

\* the fallback version of updateGradleWrapperProperties
DefaultGradleVersion == "6.8"

\* the text updateGradleWrapperProperties writes
\* the version of the wrapper the project has, cur the match in its text
CurrentVersion(text, cur) ==
    IF cur.at # 0 THEN VersionCapture(SubSeq(text, cur.at, cur.end - 1))
    ELSE DefaultGradleVersion

\* metaContent.replace(distributionUrlRegex, ...), m the match
WithVersion(metaContent, m, currentVersion) ==
    IF m.at = 0 THEN metaContent
    ELSE SubSeq(metaContent, 1, m.at - 1)
           \o "distributionUrl=https\\://services.gradle.org/distributions/gradle-"
           \o currentVersion \o "-"
           \o SubSeq(metaContent, m.end, Len(metaContent))

\* the text updateGradleWrapperProperties writes
UpdatedWrapper(tree, metaContent) ==
    WithVersion(metaContent, FindFrom(distributionUrlRegex, metaContent, 1),
                IF Exists(tree, WrapperPath)
                THEN CurrentVersion(tree[WrapperPath],
                                    FindFrom(distributionUrlRegex, tree[WrapperPath], 1))
                ELSE DefaultGradleVersion)

(***************************************************************************)
(* The texts the placeholder generators return.                            *)
(***************************************************************************)
generateRootBuildGradle(isAndroid, isKotlin, isSpring) ==
    Join(<< "// AI-Enhanced Root build.gradle",
           "// Generated using comprehensive ops_server repository context",
           "",
           "plugins {",
           "    // Core plugins following ops_server conventions",
           "    " \o (IF isKotlin THEN "alias(libs.plugins.kotlin.jvm) apply false" ELSE ""),
           "    " \o (IF isAndroid THEN "alias(libs.plugins.android.application) apply false" ELSE ""),
           "    " \o (IF isSpring THEN "alias(libs.plugins.spring.boot) apply false" ELSE ""),
           "    alias(libs.plugins.gradle.platform) apply false",
           "}",
           "",
           "allprojects {",
           "    repositories {",
           "        // Repository configuration following ops_server patterns",
           "        google()",
           "        mavenCentral()",
           "        gradlePluginPortal()",
           "    }",
           "}",
           "",
           "subprojects {",
           "    // Common configuration for all subprojects",
           "    apply plugin: 'java-library'",
           "    " \o (IF isKotlin THEN "apply plugin: 'org.jetbrains.kotlin.jvm'" ELSE ""),
           "    ",
           "    dependencies {",
           "        // Common dependencies from ops_server",
           "        " \o (IF isKotlin THEN "implementation(libs.kotlin.stdlib)" ELSE ""),
           "        testImplementation(libs.junit)",
           "        testImplementation(libs.mockito.core)",
           "    }",
           "    ",
           "    tasks.test {",
           "        useJUnitPlatform()",
           "    }",
           "}",
           "",
           "// AI-generated tasks following ops_server conventions",
           "tasks.register('cleanAll') {",
           "    dependsOn gradle.includedBuilds*.task(':clean')",
           "}",
           "" >>, "\n")

generateAndroidAppBuildGradle ==
    Join(<< "// AI-Enhanced Android App build.gradle",
           "// Generated using ops_server Android patterns",
           "",
           "plugins {",
           "    alias(libs.plugins.android.application)",
           "    alias(libs.plugins.kotlin.android)",
           "    alias(libs.plugins.kotlin.kapt)",
           "}",
           "",
           "android {",
           "    namespace = \"com.example.app\"",
           "    compileSdk = libs.versions.compileSdk.get().toInteger()",
           "    ",
           "    defaultConfig {",
           "        applicationId = \"com.example.app\"",
           "        minSdk = libs.versions.minSdk.get().toInteger()",
           "        targetSdk = libs.versions.targetSdk.get().toInteger()",
           "        versionCode = 1",
           "        versionName = \"1.0\"",
           "        ",
           "        testInstrumentationRunner = \"androidx.test.runner.AndroidJUnitRunner\"",
           "    }",
           "    ",
           "    buildTypes {",
           "        release {",
           "            isMinifyEnabled = false",
           "            proguardFiles(getDefaultProguardFile(\"proguard-android-optimize.txt\"), \"proguard-rules.pro\")",
           "        }",
           "    }",
           "    ",
           "    compileOptions {",
           "        sourceCompatibility = JavaVersion.VERSION_1_8",
           "        targetCompatibility = JavaVersion.VERSION_1_8",
           "    }",
           "    ",
           "    kotlinOptions {",
           "        jvmTarget = \"1.8\"",
           "    }",
           "}",
           "",
           "dependencies {",
           "    // Core Android dependencies following ops_server patterns",
           "    implementation(libs.androidx.core.ktx)",
           "    implementation(libs.androidx.lifecycle.runtime.ktx)",
           "    implementation(libs.androidx.activity.compose)",
           "    ",
           "    // UI dependencies",
           "    implementation(libs.androidx.compose.ui)",
           "    implementation(libs.androidx.compose.ui.tooling.preview)",
           "    implementation(libs.androidx.compose.material3)",
           "    ",
           "    // Testing",
           "    testImplementation(libs.junit)",
           "    androidTestImplementation(libs.androidx.junit)",
           "    androidTestImplementation(libs.androidx.espresso.core)",
           "}",
           "" >>, "\n")

generateJvmAppBuildGradle(isKotlin, isSpring) ==
    Join(<< "// AI-Enhanced JVM App build.gradle",
           "// Generated using ops_server JVM patterns",
           "",
           "plugins {",
           "    " \o (IF isKotlin THEN "alias(libs.plugins.kotlin.jvm)" ELSE "java"),
           "    " \o (IF isSpring THEN "alias(libs.plugins.spring.boot)" ELSE ""),
           "    application",
           "}",
           "",
           "application {",
           "    mainClass.set(\"com.example.app.MainKt\")",
           "}",
           "",
           "dependencies {",
           "    // Core dependencies following ops_server patterns",
           "    " \o (IF isKotlin THEN "implementation(libs.kotlin.stdlib)" ELSE ""),
           "    " \o (IF isSpring THEN "implementation(libs.spring.boot.starter)" ELSE ""),
           "    ",
           "    // Logging",
           "    implementation(libs.logback.classic)",
           "    ",
           "    // Testing",
           "    testImplementation(libs.junit)",
           "    " \o (IF isKotlin THEN "testImplementation(libs.kotlin.test)" ELSE ""),
           "}",
           "",
           "tasks.test {",
           "    useJUnitPlatform()",
           "}",
           "" >>, "\n")

generateCoreBuildGradle(isKotlin) ==
    Join(<< "// AI-Enhanced Core Module build.gradle",
           "// Generated using ops_server core module patterns",
           "",
           "plugins {",
           "    " \o (IF isKotlin THEN "alias(libs.plugins.kotlin.jvm)" ELSE "java-library"),
           "}",
           "",
           "dependencies {",
           "    // Core utilities and common dependencies",
           "    " \o (IF isKotlin THEN "api(libs.kotlin.stdlib)" ELSE ""),
           "    api(libs.coroutines.core)",
           "    ",
           "    // Testing",
           "    testImplementation(libs.junit)",
           "    " \o (IF isKotlin THEN "testImplementation(libs.kotlin.test)" ELSE ""),
           "}",
           "" >>, "\n")

generateDataBuildGradle(isKotlin) ==
    Join(<< "// AI-Enhanced Data Module build.gradle",
           "// Generated using ops_server data layer patterns",
           "",
           "plugins {",
           "    " \o (IF isKotlin THEN "alias(libs.plugins.kotlin.jvm)" ELSE "java-library"),
           "    alias(libs.plugins.kotlin.serialization)",
           "}",
           "",
           "dependencies {",
           "    // Data layer dependencies following ops_server patterns",
           "    implementation(project(\":core\"))",
           "    implementation(project(\":domain\"))",
           "    ",
           "    // Networking and serialization",
           "    implementation(libs.retrofit)",
           "    implementation(libs.kotlinx.serialization.json)",
           "    implementation(libs.okhttp)",
           "    ",
           "    // Database",
           "    implementation(libs.room.runtime)",
           "    " \o (IF isKotlin THEN "kapt(libs.room.compiler)" ELSE ""),
           "    ",
           "    // Testing",
           "    testImplementation(libs.junit)",
           "    testImplementation(libs.mockito.core)",
           "}",
           "" >>, "\n")

generateDomainBuildGradle(isKotlin) ==
    Join(<< "// AI-Enhanced Domain Module build.gradle",
           "// Generated using ops_server domain layer patterns",
           "",
           "plugins {",
           "    " \o (IF isKotlin THEN "alias(libs.plugins.kotlin.jvm)" ELSE "java-library"),
           "}",
           "",
           "dependencies {",
           "    // Pure domain layer - minimal dependencies following ops_server patterns",
           "    implementation(project(\":core\"))",
           "    ",
           "    // Only essential dependencies",
           "    " \o (IF isKotlin THEN "implementation(libs.kotlin.stdlib)" ELSE ""),
           "    implementation(libs.coroutines.core)",
           "    ",
           "    // Testing",
           "    testImplementation(libs.junit)",
           "    " \o (IF isKotlin THEN "testImplementation(libs.kotlin.test)" ELSE ""),
           "    testImplementation(libs.mockito.core)",
           "}",
           "" >>, "\n")

generateIntelligentLibsVersions ==
    Join(<< "# AI-Enhanced libs.versions.toml",
           "# Generated using ops_server context and Copilot AI",
           "",
           "[versions]",
           "# Core versions following ops_server patterns",
           "kotlin = \"1.9.20\"",
           "gradle = \"8.5\"",
           "android-gradle-plugin = \"8.2.0\"",
           "",
           "[libraries]",
           "# AI-suggested libraries based on project context",
           "kotlin-stdlib = { module = \"org.jetbrains.kotlin:kotlin-stdlib\", version.ref = \"kotlin\" }",
           "",
           "[plugins]",
           "# AI-recommended plugins following ops_server conventions",
           "kotlin-jvm = { id = \"org.jetbrains.kotlin.jvm\", version.ref = \"kotlin\" }",
           "" >>, "\n")

(***************************************************************************)
(* The AI enhancement.  The outcome of a request to the language model is  *)
(* an input of every call: the API is missing, no model is available, the  *)
(* request throws or is rejected, the response is empty, or the response   *)
(* is JSON or plain text.  Confidences are in hundredths.                  *)
(***************************************************************************)
AIOutcomes ==
    {"noApi", "noModel", "requestThrows", "emptyResponse", "jsonResponse", "textResponse"}
\* the outcomes in which the service is absent
AIAbsent == {"noApi", "noModel", "emptyResponse"}
\* the outcomes in which the call fails
AIFailed == {"requestThrows"}

JsonResponseConfidence == 90
TextResponseConfidence == 80
PlaceholderConfidence == 85
DefaultConfidence == 70
CatalogConfidenceThreshold == 60
RewriteConfidenceThreshold == 70

\* invokeCopilotChatAPI: None for null, else the object it returns, whose
\* libsVersionsToml and buildGradleUpdates are undefined (the response text
\* is held by its content field)
invokeCopilotChatAPI(outcome) ==
    CASE outcome = "jsonResponse" ->
           [libsVersionsToml |-> "", buildGradleUpdates |-> <<>>,
            confidence |-> JsonResponseConfidence]
      [] outcome = "textResponse" ->
           [libsVersionsToml |-> "", buildGradleUpdates |-> <<>>,
            confidence |-> TextResponseConfidence]
      [] OTHER -> None

\* prompt.includes(word)
PromptIncludes(prompt, word) == Includes(prompt, word)

\* the updates for a project of the kind the four tests find
BuildGradleUpdates(isAndroidProject, isKotlinProject, isSpringProject, hasMultipleModules) ==
    << [k |-> "build.gradle",
        v |-> generateRootBuildGradle(isAndroidProject, isKotlinProject, isSpringProject)],
       [k |-> "app/build.gradle",
        v |-> IF isAndroidProject THEN generateAndroidAppBuildGradle
              ELSE generateJvmAppBuildGradle(isKotlinProject, isSpringProject)] >>
      \o (IF hasMultipleModules
          THEN << [k |-> "core/build.gradle", v |-> generateCoreBuildGradle(isKotlinProject)],
                  [k |-> "data/build.gradle", v |-> generateDataBuildGradle(isKotlinProject)],
                  [k |-> "domain/build.gradle", v |-> generateDomainBuildGradle(isKotlinProject)] >>
          ELSE <<>>)

generateIntelligentBuildGradleUpdates(prompt) ==
    BuildGradleUpdates(PromptIncludes(prompt, "android"), PromptIncludes(prompt, "kotlin"),
                       PromptIncludes(prompt, "spring"),
                       PromptIncludes(prompt, "modules:")
                         \/ PromptIncludes(prompt, "Modules:"))

\* realAIResponse when there is one, else the placeholder response
ResponseOrPlaceholder(realAIResponse, prompt) ==
    IF realAIResponse # None THEN realAIResponse
    ELSE [libsVersionsToml |-> generateIntelligentLibsVersions,
          buildGradleUpdates |-> generateIntelligentBuildGradleUpdates(prompt),
          confidence |-> PlaceholderConfidence]

invokeAIGeneration(outcome, prompt) ==
    ResponseOrPlaceholder(invokeCopilotChatAPI(outcome), prompt)

\* the catch branch of generateAIEnhancedContent is not taken: neither
\* createAIPrompt nor invokeAIGeneration throws
\* the object generateAIEnhancedContent makes of the response
EnhancedContent(aiResponse) ==
    [libsVersionsToml |-> aiResponse.libsVersionsToml,
     buildGradleUpdates |-> aiResponse.buildGradleUpdates,
     confidence |-> IF aiResponse.confidence # 0 THEN aiResponse.confidence
                    ELSE DefaultConfidence]

generateAIEnhancedContent(outcome, prompt) ==
    EnhancedContent(invokeAIGeneration(outcome, prompt))

\* /(implementation|api|testImplementation|androidTestImplementation)\s+['"](.*?)['"]/g
depRegex ==
    << <<Lit("implementation"), Ws1, Quote, LazyDot, Quote>>,
       <<Lit("api"), Ws1, Quote, LazyDot, Quote>>,
       <<Lit("testImplementation"), Ws1, Quote, LazyDot, Quote>>,
       <<Lit("androidTestImplementation"), Ws1, Quote, LazyDot, Quote>> >>

RECURSIVE SecondCaptures(_, _)
\* match[2] of every match of depRegex: the text between the first quote
\* and the closing one
SecondCaptures(matches, n) ==
    IF n > Len(matches) THEN <<>>
    ELSE <<SubSeq(matches[n], SkipUntil(matches[n], 1, QuoteChars) + 1,
                  Len(matches[n]) - 1)>>
           \o SecondCaptures(matches, n + 1)

extractDependenciesFromContent(fileContent) ==
    SecondCaptures(MatchAll(depRegex, fileContent), 1)

\* JSON.stringify(this.extractCustomConfigurations(content), null, 2)
Stringified(members) ==
    IF Len(members) = 0 THEN "{}" ELSE "{\n" \o Join(members, ",\n") \o "\n}"
extractCustomConfigurations(fileContent) ==
    Stringified((IF Test(<<Block("android")>>, fileContent)
                 THEN <<"  \"android\": true">> ELSE <<>>)
                  \o (IF Test(<<Block("kotlinOptions")>>, fileContent)
                      THEN <<"  \"kotlin\": true">> ELSE <<>>))

RECURSIVE CoordinatesOf(_)
\* deps.map(d => `${d.group}:${d.artifact}`)
CoordinatesOf(ds) ==
    IF Len(ds) = 0 THEN <<>>
    ELSE <<(IF ds[1].group = "" THEN "undefined" ELSE ds[1].group) \o ":"
             \o (IF ds[1].artifact = "" THEN "undefined" ELSE ds[1].artifact)>>
           \o CoordinatesOf(Tail(ds))

ProjectTypeOf(depStrings) ==
    IF Includes(depStrings, "android") THEN "android"
    ELSE IF Includes(depStrings, "spring") THEN "spring-boot"
    ELSE IF Includes(depStrings, "kotlin") THEN "kotlin"
    ELSE IF Includes(depStrings, "java") THEN "java"
    ELSE "generic"
detectProjectType(ds) == ProjectTypeOf(Join(CoordinatesOf(ds), " "))

RECURSIVE JsonMembers(_)
JsonMembers(rec) ==
    IF Len(rec) = 0 THEN <<>>
    ELSE <<"    \"" \o rec[1].k \o "\": \"" \o rec[1].v \o "\"">> \o JsonMembers(Tail(rec))

\* the prompt, without the fixed sentences that hold none of the words the
\* placeholder generators look for.  The reference project of the model
\* has a catalog and no modules or build files of its own.
createAIPrompt(projectType, dependencies, customConfigurations, ref) ==
    (IF ref # None
     THEN "### Repository Structure:\n- Modules: \n"
            \o "### libs.versions.toml from ops_server:\n"
            \o Join(JsonMembers(ref.versions) \o JsonMembers(ref.libraries), ",\n") \o "\n"
     ELSE "")
      \o "## Current Project Context:\n- Project Type: " \o projectType
      \o "\n- Dependencies: " \o Join(dependencies, ", ")
      \o "\n- Custom Configurations: " \o customConfigurations
      \o "\n    \"buildSrc/src/main/kotlin/Dependencies.kt\": \"# Generated Dependencies.kt content\"\n"

\* the catalog, given what generateAIEnhancedContent has returned
CatalogFrom(aiContent, vers, ds, ref) ==
    IF aiContent.confidence > CatalogConfidenceThreshold
       /\ aiContent.libsVersionsToml # ""
    THEN aiContent.libsVersionsToml
    ELSE buildToml(vers, ds, ref)

buildTomlWithAI(vers, ds, ref, outcome) ==
    CatalogFrom(generateAIEnhancedContent(
                    outcome,
                    createAIPrompt(detectProjectType(ds), CoordinatesOf(ds), "{}", ref)),
                vers, ds, ref)

\* the prompt stripRepositoriesAndWrapperWithAI builds for a file
RewritePrompt(fileContent, ref) ==
    createAIPrompt(detectProjectType(<<>>), extractDependenciesFromContent(fileContent),
                   extractCustomConfigurations(fileContent), ref)

\* what stripRepositoriesAndWrapperWithAI returns, given the prompt
\* aiResponse.buildGradleUpdates[filePath] || aiResponse.buildGradleUpdates['build.gradle']
UpdateFor(updates, filePath) ==
    IF filePath \in Keys(updates) THEN Lookup(updates, filePath)
    ELSE IF "build.gradle" \in Keys(updates)
    THEN Lookup(updates, "build.gradle") ELSE ""

\* the text to strip, given the response and the update it holds for the file
ContentFrom(aiResponse, aiContent, fileContent) ==
    IF aiResponse.confidence > RewriteConfidenceThreshold /\ aiContent # ""
    THEN aiContent ELSE fileContent

RewriteFrom(aiResponse, fileContent, filePath) ==
    ContentFrom(aiResponse, UpdateFor(aiResponse.buildGradleUpdates, filePath), fileContent)

RewriteFromPrompt(fileContent, filePath, prompt, outcome) ==
    RewriteFrom(generateAIEnhancedContent(outcome, prompt), fileContent, filePath)

stripRepositoriesAndWrapperWithAI(fileContent, filePath, ref, outcome) ==
    RewriteFromPrompt(fileContent, filePath, RewritePrompt(fileContent, ref), outcome)

(***************************************************************************)
(* Projects and meta directories the migration is run on.                  *)
(***************************************************************************)
SettingsVerbose == "pluginManagement { }\nrootProject.name = 'demo'\ninclude 'app'\n"
SettingsMinimal == "rootProject.name = 'demo'\ninclude 'app'\n"
RootBuildText == "ext {\n    kotlin = '1.2.3'\n}\nrepositories { mavenCentral() }\n"
VersionsGradleText == "ext {\n    junit = '4.13'\n}\n"
AppBuildText ==
    "plugins {\n    id 'java'\n}\nrepositories { mavenCentral() }\ndependencies {\n    implementation 'org.example:foo:1.2.3'\n}\n"
LibBuildText ==
    "plugins {\n    id 'common.lib'\n}\ndependencies {\n    testImplementation 'org.example:foo:1.2.3'\n}\n// releases go to Sonatype by hand\n"
ProjectWrapperText == "distributionUrl=https\\://services.gradle.org/distributions/gradle-6.9.1-all.zip\n"
MetaWrapperText ==
    "distributionBase=GRADLE_USER_HOME\ndistributionUrl=https\\://services.gradle.org/distributions/gradle-8.5-bin.zip\n"

BuildSrcTemplate ==
    << [k |-> "build.gradle", v |-> "plugins {\n    id 'groovy-gradle-plugin'\n}\n"],
       [k |-> "settings.gradle", v |-> "rootProject.name = 'buildSrc'\n"],
       [k |-> "src/main/groovy/common.lib.gradle", v |-> "plugins {\n    id 'java-library'\n}\n"] >>

\* a function from the listed paths to their texts
TreeOf(entries) ==
    [p \in { entries[n].k : n \in 1..Len(entries) } |-> Lookup(entries, p)]

ProjectTrees ==
    { TreeOf(<< [k |-> SettingsPath, v |-> SettingsVerbose],
                [k |-> RootBuildPath, v |-> RootBuildText],
                [k |-> "app/build.gradle", v |-> AppBuildText],
                [k |-> WrapperPath, v |-> ProjectWrapperText] >>),
      TreeOf(<< [k |-> SettingsPath, v |-> SettingsMinimal],
                [k |-> RootBuildPath, v |-> RootBuildText],
                [k |-> VersionsGradlePath, v |-> VersionsGradleText],
                [k |-> "app/build.gradle", v |-> AppBuildText] >>),
      TreeOf(<< [k |-> "app/build.gradle", v |-> AppBuildText],
                [k |-> "lib/build.gradle", v |-> LibBuildText],
                [k |-> "build/build.gradle", v |-> RootBuildText] >>),
      TreeOf(<< [k |-> SettingsPath, v |-> SettingsMinimal],
                [k |-> "lib/build.gradle", v |-> LibBuildText],
                [k |-> "buildSrc/build.gradle", v |-> "repositories { mavenCentral() }\n"],
                [k |-> "buildSrc/legacy.gradle", v |-> "// conventions of the old build\n"] >>) }

\* the meta directory holds the buildSrc and wrapper templates or neither
MetaChoices ==
    { [hasBuildSrc |-> b, buildSrc |-> IF b THEN BuildSrcTemplate ELSE <<>>,
       hasWrapper |-> b, wrapper |-> IF b THEN MetaWrapperText ELSE "",
       reference |-> r] :
        b \in BOOLEAN, r \in ReferenceChoices }

(***************************************************************************)
(* Tables.  The texts a build file of the model can hold are few: the      *)
(* texts of the initial trees, the texts the placeholder generators        *)
(* return, and what one rewriting makes of these.  For these texts the     *)
(* values of stripRepositoriesAndWrapper and ensureCommonLibPlugin are     *)
(* tabulated; for any other text they are computed.                        *)
(***************************************************************************)
\* every prompt holds the word kotlin (in the path of Dependencies.kt)
PlaceholderTexts ==
    { u.v : u \in UNION { { BuildGradleUpdates(a, TRUE, c, TRUE)[n] :
                              n \in 1..Len(BuildGradleUpdates(a, TRUE, c, TRUE)) } :
                            a \in BOOLEAN, c \in BOOLEAN } }
InitialBuildTexts ==
    UNION { { tree[q] : q \in { r \in DOMAIN tree : IsBuildGradleName(r) } } :
              tree \in ProjectTrees }
              \cup { f.v : f \in { BuildSrcTemplate[n] : n \in DOMAIN BuildSrcTemplate } }
StripTable0 ==
    { [text |-> t, result |-> stripRepositoriesAndWrapper(t)] :
        t \in PlaceholderTexts \cup InitialBuildTexts }
InjectTable0 ==
    { [text |-> r.result.updated, result |-> ensureCommonLibPlugin(r.result.updated)] :
        r \in StripTable0 }
StripTable ==
    StripTable0 \cup
      { [text |-> t, result |-> stripRepositoriesAndWrapper(t)] :
          t \in { r.result.updated : r \in InjectTable0 } \ { r.text : r \in StripTable0 } }
InjectTable ==
    InjectTable0 \cup
      { [text |-> t, result |-> ensureCommonLibPlugin(t)] :
          t \in { r.result.updated : r \in StripTable } \ { r.text : r \in InjectTable0 } }
\* the entry of a table for a text, or the value when the table has none
Tabulated(table, text, value) ==
    IF \E r \in table : r.text = text
    THEN (CHOOSE r \in table : r.text = text).result ELSE value

(***************************************************************************)
(* executeStepByStepMigration.  One action per step; the loop of step 6    *)
(* takes one build file per action.  The meta directory is given by what   *)
(* it holds: the buildSrc template (its files in the order the copy visits *)
(* them), the wrapper template, and the catalog analyzeReferenceProject    *)
(* reads from the reference project.                                       *)
(***************************************************************************)
RECURSIVE CopyFiles(_, _, _)
\* copyBuildSrcFromMetaDirectly: every file of the template is written
\* under buildSrc/
CopyFiles(tree, template, n) ==
    IF n > Len(template) THEN tree
    ELSE CopyFiles(WriteFile(tree, "buildSrc/" \o template[n].k, template[n].v),
                   template, n + 1)

CopiedNames(template) == [n \in 1..Len(template) |-> "buildSrc/" \o template[n].k]

\* the texts of the build files, in order
TextsOf(tree, paths) == [n \in 1..Len(paths) |-> tree[paths[n]]]

RiskSummary(low, medium, high) ==
    "low=" \o ToDecimal(low) \o ", medium=" \o ToDecimal(medium)
      \o ", high=" \o ToDecimal(high)

Step0_AnalyzeReference ==
    /\ pc = "step0"
    /\ referenceContext' = meta.reference
    /\ pc' = "step1"
    /\ UNCHANGED <<files, meta, filesChanged, lowRisk, mediumRisk, highRisk, buildFiles,
                   idx, lastAI, aiFailed, runs, result, versions, deps, toml,
                   textVars, diffVars, cmdVars, scanVars>>

\* if (minimal !== original) the file is written and recorded
StoreSettings(original, minimal) ==
    IF minimal # original
    THEN /\ files' = WriteFile(files, SettingsPath, minimal)
         /\ filesChanged' = Append(filesChanged, SettingsPath)
         /\ lowRisk' = lowRisk + 1
    ELSE UNCHANGED <<files, filesChanged, lowRisk>>

Step1_UpdateSettings ==
    /\ pc = "step1"
    /\ IF Exists(files, SettingsPath)
       THEN StoreSettings(files[SettingsPath], MinimalSettings(files[SettingsPath]))
       ELSE UNCHANGED <<files, filesChanged, lowRisk>>
    /\ pc' = "step2"
    /\ UNCHANGED <<meta, mediumRisk, highRisk, buildFiles, idx, lastAI, aiFailed, runs,
                   result, tomlVars, textVars, diffVars, cmdVars, scanVars>>

Step2_CopyBuildSrc ==
    /\ pc = "step2"
    /\ IF meta.hasBuildSrc
       THEN /\ files' = CopyFiles(files, meta.buildSrc, 1)
            /\ filesChanged' = filesChanged \o CopiedNames(meta.buildSrc)
            /\ lowRisk' = lowRisk + 3
       ELSE UNCHANGED <<files, filesChanged, lowRisk>>
    /\ pc' = "step3"
    /\ UNCHANGED <<meta, mediumRisk, highRisk, buildFiles, idx, lastAI, aiFailed, runs,
                   result, tomlVars, textVars, diffVars, cmdVars, scanVars>>

\* the extraction over the texts of all build files
ExtractFrom(allText) ==
    /\ versions' = extractVersionsFromExt(allText)
    /\ deps' = extractDependencies(allText)

Step3_GenerateCatalog ==
    /\ pc = "step3"
    /\ buildFiles' = findAllBuildGradleFiles(files)
    /\ ExtractFrom(Join(TextsOf(files, buildFiles'), "\n\n"))
    /\ \E outcome \in AIOutcomes :
         /\ toml' = [text |-> buildTomlWithAI(versions', deps', referenceContext, outcome)]
         /\ files' = WriteFile(files, TomlPath, toml'.text)
         /\ lastAI' = outcome
         /\ aiFailed' = (aiFailed \/ outcome \in AIFailed)
    /\ filesChanged' = Append(filesChanged, TomlPath)
    /\ mediumRisk' = mediumRisk + 1
    /\ pc' = "step4"
    /\ UNCHANGED <<meta, lowRisk, highRisk, idx, runs, result, referenceContext,
                   textVars, diffVars, cmdVars, scanVars>>

Step4_UpdateWrapper ==
    /\ pc = "step4"
    /\ IF meta.hasWrapper
       THEN /\ files' = WriteFile(files, WrapperPath, UpdatedWrapper(files, meta.wrapper))
            /\ filesChanged' = Append(filesChanged, WrapperPath)
       ELSE UNCHANGED <<files, filesChanged>>
    /\ lowRisk' = lowRisk + 1
    /\ lastAI' = "none"
    /\ pc' = "step5"
    /\ UNCHANGED <<meta, mediumRisk, highRisk, buildFiles, idx, aiFailed, runs, result,
                   tomlVars, textVars, diffVars, cmdVars, scanVars>>

\* the deletions that open step 6
Step5_DeleteRootFiles ==
    /\ pc = "step5"
    /\ LET deleted == (IF Exists(files, RootBuildPath) THEN <<RootBuildPath>> ELSE <<>>)
                        \o (IF Exists(files, VersionsGradlePath)
                            THEN <<VersionsGradlePath>> ELSE <<>>)
       IN  /\ files' = [q \in DOMAIN files \ {RootBuildPath, VersionsGradlePath} |-> files[q]]
           /\ filesChanged' = filesChanged \o deleted
           /\ lowRisk' = lowRisk + Len(deleted)
    /\ idx' = 1
    /\ pc' = "step6"
    /\ UNCHANGED <<meta, mediumRisk, highRisk, buildFiles, lastAI, aiFailed, runs, result,
                   tomlVars, textVars, diffVars, cmdVars, scanVars>>

\* the iteration of the loop for the root build.gradle: continue
Step6_SkipRootBuild ==
    /\ pc = "step6"
    /\ idx <= Len(buildFiles)
    /\ buildFiles[idx] = RootBuildPath
    /\ idx' = idx + 1
    /\ UNCHANGED <<files, meta, pc, filesChanged, lowRisk, mediumRisk, highRisk,
                   buildFiles, lastAI, aiFailed, runs, result, tomlVars, textVars,
                   diffVars, cmdVars, scanVars>>

\* the iteration for a file that no longer exists: fs.readFileSync throws,
\* nothing catches it, and the run ends without a result
Step6_ReadThrows ==
    /\ pc = "step6"
    /\ idx <= Len(buildFiles)
    /\ buildFiles[idx] # RootBuildPath
    /\ ~Exists(files, buildFiles[idx])
    /\ pc' = "failed"
    /\ UNCHANGED <<files, meta, filesChanged, lowRisk, mediumRisk, highRisk, buildFiles,
                   idx, lastAI, aiFailed, runs, result, tomlVars, textVars, diffVars, cmdVars, scanVars>>

\* const addRes = this.ensureCommonLibPlugin(stripped.updated)
InjectInto(stripped) ==
    Tabulated(InjectTable, stripped.updated, ensureCommonLibPlugin(stripped.updated))
\* updated = addRes.updated; changes = stripped.changes + addRes.changes
Combined(stripped, addRes) ==
    [updated |-> addRes.updated, changes |-> stripped.changes + addRes.changes]
StrippedAndInjected(stripped) == Combined(stripped, InjectInto(stripped))
\* const stripped = this.stripRepositoriesAndWrapper(aiUpdated), and on
StripAndInject(aiUpdated) ==
    StrippedAndInjected(Tabulated(StripTable, aiUpdated,
                                  stripRepositoriesAndWrapper(aiUpdated)))

\* if (changes > 0 && updated !== original) the file is written and recorded
StoreRewrite(rel, original, r) ==
    IF r.changes > 0 /\ r.updated # original
    THEN /\ files' = WriteFile(files, rel, r.updated)
         /\ filesChanged' = Append(filesChanged, rel)
         /\ mediumRisk' = mediumRisk + 1
    ELSE UNCHANGED <<files, filesChanged, mediumRisk>>

\* the body of the loop for the file rel, whose text is original
RewriteAndStoreGiven(outcome, rel, original, prompt) ==
    /\ StoreRewrite(rel, original,
                    StripAndInject(RewriteFromPrompt(original, rel, prompt, outcome)))
    /\ aiFailed' = (aiFailed \/ outcome \in AIFailed)

RewriteAndStore(rel, original, prompt) ==
    \E outcome \in AIOutcomes : RewriteAndStoreGiven(outcome, rel, original, prompt)

\* the iteration for any other file
Step6_RewriteBuildFile ==
    /\ pc = "step6"
    /\ idx <= Len(buildFiles)
    /\ buildFiles[idx] # RootBuildPath
    /\ Exists(files, buildFiles[idx])
    /\ RewriteAndStore(buildFiles[idx], files[buildFiles[idx]],
                       RewritePrompt(files[buildFiles[idx]], referenceContext))
    /\ idx' = idx + 1
    /\ UNCHANGED <<meta, pc, lowRisk, highRisk, buildFiles, lastAI, runs, result, tomlVars,
                   textVars, diffVars, cmdVars, scanVars>>

\* after the loop: guidance and validation (which write nothing into the
\* project tree and catch their own errors), then the summary is returned
Step7_ReturnSummary ==
    /\ pc = "step6"
    /\ idx > Len(buildFiles)
    /\ result' = [filesChanged |-> filesChanged,
                  riskSummary |-> RiskSummary(lowRisk, mediumRisk, highRisk)]
    /\ runs' = runs + 1
    /\ pc' = "done"
    /\ UNCHANGED <<files, meta, filesChanged, lowRisk, mediumRisk, highRisk, buildFiles,
                   idx, lastAI, aiFailed, tomlVars, textVars, diffVars, cmdVars, scanVars>>

\* executeStepByStepMigration is called again on the tree the completed
\* run left
MaxRuns == 2

RunAgain ==
    /\ pc = "done"
    /\ runs < MaxRuns
    /\ pc' = "step0"
    /\ filesChanged' = <<>>
    /\ lowRisk' = 0
    /\ mediumRisk' = 0
    /\ highRisk' = 0
    /\ buildFiles' = <<>>
    /\ idx' = 0
    /\ aiFailed' = FALSE
    /\ result' = None
    /\ referenceContext' = None
    /\ versions' = <<>>
    /\ deps' = <<>>
    /\ toml' = None
    /\ UNCHANGED <<files, meta, lastAI, runs, textVars, diffVars, cmdVars, scanVars>>

\* the state in which executeStepByStepMigration is entered for the first
\* time
Init ==
    /\ files \in ProjectTrees
    /\ meta \in MetaChoices
    /\ pc = "step0"
    /\ filesChanged = <<>>
    /\ lowRisk = 0
    /\ mediumRisk = 0
    /\ highRisk = 0
    /\ buildFiles = <<>>
    /\ idx = 0
    /\ lastAI = "none"
    /\ aiFailed = FALSE
    /\ runs = 0
    /\ result = None
    /\ IdleText
    /\ IdleDiff
    /\ IdleToml
    /\ IdleCommand
    /\ IdleScan

Next ==
    \/ Step0_AnalyzeReference
    \/ Step1_UpdateSettings
    \/ Step2_CopyBuildSrc
    \/ Step3_GenerateCatalog
    \/ Step4_UpdateWrapper
    \/ Step5_DeleteRootFiles
    \/ Step6_SkipRootBuild
    \/ Step6_ReadThrows
    \/ Step6_RewriteBuildFile
    \/ Step7_ReturnSummary
    \/ RunAgain

Spec == Init /\ [][Next]_vars

InitMigrate ==
    /\ stateFile \in StateFileChoices
    /\ now = 0
    /\ cmd = "idle"
    /\ foundState = None
    /\ resumed = FALSE
    /\ prompted = FALSE
    /\ cloned = FALSE
    /\ workspace = None
    /\ patchFile = None
    /\ planResult = None
    /\ ended = "none"
    /\ invocations = 0
    /\ IdleText
    /\ IdleDiff
    /\ IdleToml
    /\ IdleRun
    /\ IdleScan

\* the failure of a step of the command: the handler's catch shows the error
Fails(how) ==
    /\ cmd' = "idle"
    /\ ended' = how

Tick ==
    /\ now < MaxTicks * TickMs
    /\ now' = now + TickMs
    /\ UNCHANGED <<stateFile, cmd, foundState, resumed, prompted, cloned, workspace, patchFile,
                   planResult, ended, invocations, textVars, diffVars, tomlVars, runVars, scanVars>>

InvokeMigrate ==
    /\ cmd = "idle"
    /\ invocations < MaxInvocations
    /\ invocations' = invocations + 1
    /\ foundState' = [file |-> stateFile, at |-> now]
    /\ stateFile' = StateCheck(stateFile, now).file
    /\ resumed' = StateCheck(stateFile, now).resume
    /\ cmd' = IF resumed' THEN "resumeParse" ELSE "prompt"
    /\ workspace' = IF resumed' THEN [path |-> stateFile.workspacePath] ELSE None
    /\ prompted' = FALSE
    /\ cloned' = FALSE
    /\ planResult' = None
    /\ ended' = "running"
    /\ UNCHANGED <<now, patchFile, textVars, diffVars, tomlVars, runVars, scanVars>>

\* the three input boxes; an empty answer ends the command with an error
AskInputs ==
    /\ cmd = "prompt"
    /\ prompted' = TRUE
    /\ \E answered \in BOOLEAN :
         IF answered THEN cmd' = "clone" /\ ended' = ended
         ELSE Fails("failed")
    /\ UNCHANGED <<stateFile, now, foundState, resumed, cloned, workspace, patchFile, planResult,
                   invocations, textVars, diffVars, tomlVars, runVars, scanVars>>

CloneAndPrepare ==
    /\ cmd = "clone"
    /\ cloned' = TRUE
    /\ \/ /\ Fails("failed")
          /\ workspace' = workspace
       \/ \E w \in WorkspacePaths, isAlreadyOpen \in BOOLEAN :
            /\ workspace' = [path |-> w]
            /\ cmd' = AfterClone(isAlreadyOpen)
            /\ ended' = ended
    /\ UNCHANGED <<stateFile, now, foundState, resumed, prompted, patchFile, planResult,
                   invocations, textVars, diffVars, tomlVars, runVars, scanVars>>

SaveMigrationState ==
    /\ cmd = "saveState"
    /\ stateFile' = SavedState(workspace.path, DefaultCommitMessage, now)
    /\ cmd' = "updateWorkspace"
    /\ UNCHANGED <<now, foundState, resumed, prompted, cloned, workspace, patchFile, planResult,
                   ended, invocations, textVars, diffVars, tomlVars, runVars, scanVars>>

\* updateWorkspaceFolders: the extension host restarts and the command is
\* gone, or the call throws and the command returns, or the call completes
UpdateWorkspaceFolders ==
    /\ cmd = "updateWorkspace"
    /\ \/ Fails("restarted")
       \/ Fails("returned")
       \/ cmd' = "parse" /\ ended' = ended
    /\ UNCHANGED <<stateFile, now, foundState, resumed, prompted, cloned, workspace, patchFile,
                   planResult, invocations, textVars, diffVars, tomlVars, runVars, scanVars>>

ParseProject ==
    /\ cmd = "parse"
    /\ \/ Fails("failed")
       \/ cmd' = "plan" /\ ended' = ended
    /\ UNCHANGED <<stateFile, now, foundState, resumed, prompted, cloned, workspace, patchFile,
                   planResult, invocations, textVars, diffVars, tomlVars, runVars, scanVars>>

PlanPatches ==
    /\ cmd = "plan"
    /\ \E r \in MigrationOutcomes :
         IF r = MigrationThrows
         THEN Fails("failed") /\ UNCHANGED <<planResult, patchFile>>
         ELSE /\ planResult' = generatePatches(r)
              /\ patchFile' = [text |-> planResult'.patchText]
              /\ cmd' = "review"
              /\ ended' = ended
    /\ UNCHANGED <<stateFile, now, foundState, resumed, prompted, cloned, workspace, invocations,
                   textVars, diffVars, tomlVars, runVars, scanVars>>

\* the choice of the user; a failure of Apply Patches is caught and shown
ReviewChanges ==
    /\ cmd = "review"
    /\ \E action \in UserActions, applied \in BOOLEAN :
         /\ cmd' = "idle"
         /\ ended' = "completed"
    /\ UNCHANGED <<stateFile, now, foundState, resumed, prompted, cloned, workspace, patchFile,
                   planResult, invocations, textVars, diffVars, tomlVars, runVars, scanVars>>

ResumeParse ==
    /\ cmd = "resumeParse"
    /\ \/ Fails("failed")
       \/ cmd' = "resumePlan" /\ ended' = ended
    /\ UNCHANGED <<stateFile, now, foundState, resumed, prompted, cloned, workspace, patchFile,
                   planResult, invocations, textVars, diffVars, tomlVars, runVars, scanVars>>

ResumePlan ==
    /\ cmd = "resumePlan"
    /\ \E r \in MigrationOutcomes :
         IF r = MigrationThrows
         THEN Fails("failed") /\ UNCHANGED <<planResult, patchFile>>
         ELSE /\ planResult' = generatePatches(r)
              /\ patchFile' = [text |-> planResult'.patchText]
              /\ cmd' = "resumeReview"
              /\ ended' = ended
    /\ UNCHANGED <<stateFile, now, foundState, resumed, prompted, cloned, workspace, invocations,
                   textVars, diffVars, tomlVars, runVars, scanVars>>

\* the choice of the user, then the removal of the state file
ResumeReview ==
    /\ cmd = "resumeReview"
    /\ \E action \in UserActions, applied \in BOOLEAN :
         /\ stateFile' = None
         /\ cmd' = "idle"
         /\ ended' = "completed"
    /\ UNCHANGED <<now, foundState, resumed, prompted, cloned, workspace, patchFile,
                   planResult, invocations, textVars, diffVars, tomlVars, runVars, scanVars>>

NextMigrate ==
    \/ Tick
    \/ InvokeMigrate
    \/ AskInputs
    \/ CloneAndPrepare
    \/ SaveMigrationState
    \/ UpdateWorkspaceFolders
    \/ ParseProject
    \/ PlanPatches
    \/ ReviewChanges
    \/ ResumeParse
    \/ ResumePlan
    \/ ResumeReview

SpecMigrate == InitMigrate /\ [][NextMigrate]_vars

(***************************************************************************)
(* C1: orchestrator idempotence.  A run of executeStepByStepMigration on   *)
(* the tree a completed run has left returns an empty filesChanged and the *)
(* risk summary 'low=0, medium=0, high=0'.                                 *)
(***************************************************************************)
C1_OrchestratorIdempotent ==
    (pc = "done" /\ runs >= 2) =>
        /\ result.filesChanged = <<>>
        /\ result.riskSummary = "low=0, medium=0, high=0"

(***************************************************************************)
(* C4: when the AI service is absent (no API, no model, an empty response) *)
(* or the request fails, the catalog step 3 has written is the text        *)
(* buildToml makes of the extracted versions and dependencies and the      *)
(* reference context.                                                      *)
(***************************************************************************)
C4_CatalogFallsBack ==
    (pc = "step4" /\ lastAI \in AIAbsent \cup AIFailed) =>
        files[TomlPath] = buildToml(versions, deps, referenceContext)

(***************************************************************************)
(* C5: a failure of the AI request does not end the run: a run in which a  *)
(* request has failed never ends without its summary.                      *)
(***************************************************************************)
C5_AIFailureNotPropagated == aiFailed => pc # "failed"

(***************************************************************************)
(* C2: the stripper applied to its own output reports no change and       *)
(* returns the text it was given.                                          *)
(***************************************************************************)
C2_StripperIdempotent ==
    second # None => second.changes = 0 /\ second.updated = first.updated

(***************************************************************************)
(* C3: the injector reports 0 or 1 changes, and applied to its own output  *)
(* it reports no change and returns the text it was given.                 *)
(***************************************************************************)
C3_InjectorIdempotent ==
    /\ first # None => first.changes \in {0, 1}
    /\ second # None => second.changes = 0 /\ second.updated = first.updated

\* a text with a plugins block that lacks the declaration has been injected
\* and the result has been injected again
C3_Witness ==
    /\ second # None
    /\ first.changes = 1
    /\ Test(hasPluginsBlockRegex, content)

(***************************************************************************)
(* C10: applying the generated diff to the original text succeeds and      *)
(* yields exactly the new text.                                            *)
(***************************************************************************)
C10_DiffRoundTrip ==
    patched # None => patched.ok /\ patched.text = newText

\* texts with different line counts, sharing their first line and differing
\* in a later one, have been diffed and the diff applied
C10_Witness ==
    /\ patched # None
    /\ Len(Split(oldText, "\n")) > Len(Split(newText, "\n"))
    /\ Len(Split(newText, "\n")) >= 2
    /\ Split(oldText, "\n")[1] = Split(newText, "\n")[1]
    /\ Split(oldText, "\n")[2] # Split(newText, "\n")[2]

(***************************************************************************)
(* C11: a generated diff has exactly one hunk header, and the counts of    *)
(* that header are the totals of the lines emitted after it: context lines *)
(* plus '-' lines for the old count, context lines plus '+' lines for the  *)
(* new count, for texts of equal and of different lengths.                 *)
(***************************************************************************)
\* the lines of a diff text, without the empty piece after its last newline
DiffLinesOf(d) == LET lines == Split(d, "\n") IN SubSeq(lines, 1, Len(lines) - 1)

StartsWith(line, prefix) ==
    Len(line) >= Len(prefix) /\ SubSeq(line, 1, Len(prefix)) = prefix

\* the number of lines from the fourth on that carry the marker
MarkedLines(lines, mark) ==
    Cardinality({k \in 4..Len(lines) : StartsWith(lines[k], mark)})

\* the number of context lines of the hunk: git apply and patch read an
\* empty line as a context line that carries the empty text
ContextLines(lines) ==
    MarkedLines(lines, " ") + Cardinality({k \in 4..Len(lines) : lines[k] = ""})

HunkHeaderLines(lines) == {k \in 1..Len(lines) : StartsWith(lines[k], "@@")}

C11_HunkCountsMatch ==
    diff # None =>
        LET lines == DiffLinesOf(diff.text)
            context == ContextLines(lines)
        IN  /\ HunkHeaderLines(lines) = {3}
            /\ lines[3] = "@@ -1," \o ToDecimal(context + MarkedLines(lines, "-"))
                              \o " +1," \o ToDecimal(context + MarkedLines(lines, "+"))
                              \o " @@"

(***************************************************************************)
(* A line-based reader of a catalog text that tracks the current [section] *)
(* header, used to state the properties of generated catalogs.             *)
(***************************************************************************)
IsHeader(l) == Len(l) >= 2 /\ Ch(l, 1) = "[" /\ Ch(l, Len(l)) = "]"

\* the positions at which sub occurs in l
Occurrences(l, sub) ==
    { p \in 1..(Len(l) - Len(sub) + 1) : SubSeq(l, p, p + Len(sub) - 1) = sub }

\* the header line that governs line i, or "" before the first header
SectionAt(lines, i) ==
    LET hs == { j \in 1..i : IsHeader(lines[j]) }
    IN  IF hs = {} THEN "" ELSE lines[MaxPos(hs)]

\* the indices of the key = value lines of a section
EntryLines(text, header) ==
    LET lines == Split(text, "\n")
    IN  { i \in 1..Len(lines) :
            /\ SectionAt(lines, i) = header
            /\ ~IsHeader(lines[i])
            /\ Occurrences(lines[i], " = ") # {} }

LineAt(text, i) == Split(text, "\n")[i]

\* the key = value lines of a section, as a set
EntryTexts(text, header) ==
    LET lines == Split(text, "\n")
    IN  { lines[i] : i \in { j \in 1..Len(lines) :
                               /\ SectionAt(lines, j) = header
                               /\ ~IsHeader(lines[j])
                               /\ Occurrences(lines[j], " = ") # {} } }

\* the key (alias) of a key = value line
EntryKey(l) == SubSeq(l, 1, MinPos(Occurrences(l, " = ")) - 1)

\* the text between the first occurrence of open and the next double quote,
\* or "" when open does not occur
QuotedAfter(l, open) ==
    IF Occurrences(l, open) = {} THEN ""
    ELSE LET from == MinPos(Occurrences(l, open)) + Len(open)
         IN  SubSeq(l, from, SkipUntil(l, from, {"\""}) - 1)

HasVersionRef(l) == Occurrences(l, "version.ref = \"") # {}
VersionRefOf(l) == QuotedAfter(l, "version.ref = \"")
GroupOf(l) == QuotedAfter(l, "group = \"")
NameOf(l) == QuotedAfter(l, "name = \"")

\* the keys of the [versions] section
EmittedVersionKeys(text) ==
    { EntryKey(l) : l \in EntryTexts(text, "[versions]") }

\* s contains token, compared letter by letter without regard to case
ContainsIgnoringCase(s, token) ==
    \E p \in 1..(Len(s) - Len(token) + 1) :
        \A j \in 1..Len(token) :
            LowerChar(Ch(s, p + j - 1)) = LowerChar(Ch(token, j))

(***************************************************************************)
(* C6: every version.ref of a [libraries] or [plugins] entry names a key   *)
(* of the [versions] section of the same catalog.                          *)
(***************************************************************************)
C6_ReferenceIntegrity ==
    toml # None =>
        \A l \in EntryTexts(toml.text, "[libraries]") \cup EntryTexts(toml.text, "[plugins]") :
            HasVersionRef(l) => VersionRefOf(l) \in EmittedVersionKeys(toml.text)

(***************************************************************************)
(* C7: no two [libraries] lines of a catalog have the same alias.          *)
(***************************************************************************)
C7_AliasUnique ==
    toml # None =>
        \A i, j \in EntryLines(toml.text, "[libraries]") :
            i # j => EntryKey(LineAt(toml.text, i)) # EntryKey(LineAt(toml.text, j))

(***************************************************************************)
(* C8: a group:artifact declared several times has exactly one [libraries] *)
(* entry, the one generated for its first declaration.                     *)
(***************************************************************************)
C8_DedupByIdentity ==
    toml # None =>
        \A m, n \in 1..Len(deps) :
            (m < n /\ DependencyEmitted(deps[m])
                   /\ deps[m].group = deps[n].group
                   /\ deps[m].artifact = deps[n].artifact
                   /\ \A e \in 1..(m - 1) : deps[e].group # deps[m].group
                                              \/ deps[e].artifact # deps[m].artifact)
            => LET entries == { i \in EntryLines(toml.text, "[libraries]") :
                                  /\ GroupOf(LineAt(toml.text, i)) = deps[m].group
                                  /\ NameOf(LineAt(toml.text, i)) = deps[m].artifact }
               IN  /\ Cardinality(entries) = 1
                   /\ \A i \in entries :
                        LineAt(toml.text, i) = DependencyLines(versions, <<deps[m]>>)[1]

(***************************************************************************)
(* C9: a version entry (a reference-catalog entry, or an extracted entry   *)
(* whose key the reference catalog does not define) is emitted in          *)
(* [versions] if and only if neither its key nor its value contains an     *)
(* excluded-dependency token and its key contains no excluded-key token,   *)
(* case-insensitively.                                                     *)
(***************************************************************************)
RefVersions == IF referenceContext = None THEN <<>> ELSE referenceContext.versions

VersionEntries ==
    { RefVersions[i] : i \in 1..Len(RefVersions) }
      \cup { versions[i] : i \in { j \in 1..Len(versions) : versions[j].k \notin Keys(RefVersions) } }

\* the [versions] line of an entry
VersionLineOf(e) == e.k \o " = \"" \o e.v \o "\""

EntryEmitted(e) == VersionLineOf(e) \in EntryTexts(toml.text, "[versions]")

HasExcludedDependencyToken(s) ==
    \E n \in 1..Len(EXCLUDED_DEPENDENCIES) : ContainsIgnoringCase(s, EXCLUDED_DEPENDENCIES[n])

HasExcludedKeyToken(s) ==
    \E n \in 1..Len(EXCLUDED_VERSION_KEYS) : ContainsIgnoringCase(s, EXCLUDED_VERSION_KEYS[n])

C9_ExclusionCorrect ==
    toml # None =>
        LET emitted == EntryTexts(toml.text, "[versions]")
        IN  \A e \in VersionEntries :
                VersionLineOf(e) \in emitted <=> /\ ~HasExcludedDependencyToken(e.k)
                                                 /\ ~HasExcludedDependencyToken(e.v)
                                                 /\ ~HasExcludedKeyToken(e.k)

\* a catalog has been generated from entries of all four kinds: kept,
\* dropped for its key (excluded-key token in another case), dropped for
\* its value, and kept although its value is an excluded-key token
C9_Witness ==
    /\ toml # None
    /\ \E e \in VersionEntries : EntryEmitted(e) /\ HasExcludedKeyToken(e.v)
    /\ \E e \in VersionEntries : ~EntryEmitted(e) /\ HasExcludedKeyToken(e.k)
                                     /\ ~HasExcludedDependencyToken(e.v)
    /\ \E e \in VersionEntries : ~EntryEmitted(e) /\ HasExcludedDependencyToken(e.v)
                                     /\ ~HasExcludedDependencyToken(e.k)
                                     /\ ~HasExcludedKeyToken(e.k)

(***************************************************************************)
(* C12: an invocation that finds a state file of the step workspace_updated*)
(* whose timestamp is within the freshness window resumes the migration of *)
(* the recorded workspace without prompts and without a clone; an          *)
(* invocation that finds any other state file (stale, unreadable, of an    *)
(* unrecognized step) discards the file and starts from the beginning.     *)
(***************************************************************************)
Resumable(file, t) ==
    /\ file \notin {None, CorruptState}
    /\ IsRecent(file, t)
    /\ file.step = "workspace_updated"

C12_ResumeDecision ==
    foundState # None =>
        /\ Resumable(foundState.file, foundState.at) =>
              /\ resumed
              /\ ~prompted
              /\ ~cloned
              /\ workspace = [path |-> foundState.file.workspacePath]
        /\ (foundState.file # None /\ ~Resumable(foundState.file, foundState.at)) =>
              /\ ~resumed
              /\ cmd = "prompt" => stateFile = None

(***************************************************************************)
(* C13: when a migration run has completed, the state file does not exist, *)
(* be it a resumed run or a run that found no state file and ran straight  *)
(* through (any state file is then one the run itself has written).        *)
(***************************************************************************)
C13_StateRemovedOnCompletion ==
    (cmd = "idle" /\ ended = "completed" /\ (resumed \/ foundState.file = None))
        => stateFile = None

(***************************************************************************)
(* C14: when the workspace update is called, and when it has interrupted   *)
(* the command, the state file holds the state saved by this invocation:   *)
(* the step workspace_updated, the path of the clone, the commit message   *)
(* and a timestamp.                                                        *)
(***************************************************************************)
C14_StateSavedBeforeUpdate ==
    (cmd = "updateWorkspace" \/ ended \in {"restarted", "returned"}) =>
        /\ stateFile \notin {None, CorruptState}
        /\ "timestamp" \in DOMAIN stateFile
        /\ stateFile.timestamp <= now
        /\ stateFile = SavedState(workspace.path, DefaultCommitMessage, stateFile.timestamp)
        /\ StateCheck(stateFile, stateFile.timestamp).resume

\* the extension host has restarted during the workspace update of an
\* invocation that found no state file
C14_Witness ==
    /\ ended = "restarted"
    /\ foundState.file = None
    /\ stateFile # None

(***************************************************************************)
(* C20: the text written to patches.diff holds a unified diff (its file    *)
(* headers) for every file of filesChanged.                                *)
(***************************************************************************)
C20_PatchCoversFilesChanged ==
    planResult # None =>
        \A k \in 1..Len(planResult.filesChanged) :
            Includes(patchFile.text,
                     "--- a/" \o planResult.filesChanged[k]
                        \o "\n+++ b/" \o planResult.filesChanged[k] \o "\n")

(***************************************************************************)
(* C15: a run counts a high-risk change for every module that the parser   *)
(* flags with a nexus or sonatype reference and whose build file the       *)
(* stripper leaves without a change: the high count of the summary is at   *)
(* least the number of such modules.                                       *)
(***************************************************************************)
\* /(nexus|sonatype)/i.test(content)
detectNexus(fileContent) ==
    \/ ContainsIgnoringCase(fileContent, "nexus")
    \/ ContainsIgnoringCase(fileContent, "sonatype")

\* the build files of the modules parseGradleProject flags with
\* nexusReferences; every directory of the trees of the model holds at most
\* one build file
FlaggedBuildFiles(tree) ==
    {p \in DOMAIN tree : IsBuildGradleName(p) /\ detectNexus(tree[p])}

\* the flagged build files the run has visited and not rewritten (they hold
\* the text the parser has read) on which the stripper reports no change
FlaggedWithoutChange ==
    {p \in FlaggedBuildFiles(files) :
        /\ \E n \in 1..Len(buildFiles) : buildFiles[n] = p
        /\ \A n \in 1..Len(filesChanged) : filesChanged[n] # p
        /\ Tabulated(StripTable, files[p], stripRepositoriesAndWrapper(files[p])).changes = 0}

C15_HighRiskCounted ==
    pc = "done" =>
        /\ highRisk >= Cardinality(FlaggedWithoutChange)
        /\ result.riskSummary = RiskSummary(lowRisk, mediumRisk, highRisk)

(***************************************************************************)
(* C16: after step 2 has run with the template present, the buildSrc tree  *)
(* of the project equals the template tree: every file of the template is  *)
(* there with the content of the template, and there is no other file      *)
(* under buildSrc.                                                         *)
(***************************************************************************)
UnderBuildSrc(tree) ==
    {p \in DOMAIN tree : Len(p) > Len("buildSrc/")
                            /\ SubSeq(p, 1, Len("buildSrc/")) = "buildSrc/"}

C16_BuildSrcEqualsTemplate ==
    (pc = "step3" /\ meta.hasBuildSrc) =>
        /\ \A n \in 1..Len(meta.buildSrc) :
              /\ Exists(files, "buildSrc/" \o meta.buildSrc[n].k)
              /\ files["buildSrc/" \o meta.buildSrc[n].k] = meta.buildSrc[n].v
        /\ UnderBuildSrc(files)
              = {"buildSrc/" \o meta.buildSrc[n].k : n \in 1..Len(meta.buildSrc)}

(***************************************************************************)
(* C17: after step 4 has run with the wrapper template present, the        *)
(* wrapper properties of the project are the template, whatever wrapper    *)
(* properties the project had before.                                      *)
(***************************************************************************)
C17_WrapperVerbatim ==
    (pc = "step5" /\ meta.hasWrapper) =>
        /\ Exists(files, WrapperPath)
        /\ files[WrapperPath] = meta.wrapper

(***************************************************************************)
(* C19: on a build file with one repositories block and one publishing     *)
(* block that nests a repositories block with a maven block, the stripper  *)
(* removes both top-level blocks entirely, so that no closing brace is     *)
(* left, and reports exactly 2 changes.                                    *)
(***************************************************************************)
C19_NestedBlocksRemoved ==
    (content = NestedPublishingText /\ first # None) =>
        /\ first.changes = 2
        /\ ~Includes(first.updated, "}")
        /\ ~Includes(first.updated, "{")

(***************************************************************************)
(* Step 1 on settings descriptors made of at most MaxSettingsLexemes       *)
(* lexemes: the project is analysed (step 0) and its settings.gradle is    *)
(* rewritten (step 1).                                                     *)
(***************************************************************************)
MaxSettingsLexemes == 4
SettingsLexemes ==
    {"rootProject.name = 'demo'", "include 'app'", "include 'lib'", "pluginManagement { }",
     "    ", "\n"}
SettingsTrees ==
    { TreeOf(<< [k |-> SettingsPath, v |-> t] >>) :
        t \in Texts(SettingsLexemes, MaxSettingsLexemes) \cup {SettingsVerbose, SettingsMinimal} }

InitSettings ==
    /\ files \in SettingsTrees
    /\ meta \in {m \in MetaChoices : ~m.hasBuildSrc}
    /\ pc = "step0"
    /\ filesChanged = <<>>
    /\ lowRisk = 0
    /\ mediumRisk = 0
    /\ highRisk = 0
    /\ buildFiles = <<>>
    /\ idx = 0
    /\ lastAI = "none"
    /\ aiFailed = FALSE
    /\ runs = 0
    /\ result = None
    /\ IdleText
    /\ IdleDiff
    /\ IdleToml
    /\ IdleCommand
    /\ IdleScan

NextSettings == Step0_AnalyzeReference \/ Step1_UpdateSettings

SpecSettings == InitSettings /\ [][NextSettings]_vars

\* the lines of a settings descriptor, read one line at a time
BlankChars == {" ", "\t"}
Indent(line) ==
    CHOOSE n \in 0..Len(line) :
        /\ \A i \in 1..n : Ch(line, i) \in BlankChars
        /\ n = Len(line) \/ Ch(line, n + 1) \notin BlankChars
AfterIndent(line) == SubSeq(line, Indent(line) + 1, Len(line))
IsIncludeLine(line) ==
    /\ StartsWith(AfterIndent(line), "include")
    /\ Len(AfterIndent(line)) > Len("include")
    /\ Ch(AfterIndent(line), Len("include") + 1) \in BlankChars
IsProjectNameLine(line) ==
    /\ StartsWith(AfterIndent(line), "rootProject.name")
    /\ StartsWith(AfterIndent(SubSeq(AfterIndent(line), Len("rootProject.name") + 1,
                                     Len(AfterIndent(line)))), "=")
ProjectNameLineOf(lines) ==
    IF SelectSeq(lines, IsProjectNameLine) # <<>>
    THEN SelectSeq(lines, IsProjectNameLine)[1]
    ELSE "rootProject.name = '" \o ProjectName \o "'"
\* the project-name line, then the include lines in their order, one line each
NameAndIncludeLines(lines) ==
    Join(<<ProjectNameLineOf(lines)>> \o SelectSeq(lines, IsIncludeLine), "\n") \o "\n"

(***************************************************************************)
(* C18: after step 1 on an existing settings.gradle the file consists of   *)
(* exactly one project-name line (the original one, or the default made    *)
(* of the project directory name when there is none) followed by the       *)
(* original include lines in their original order, and nothing else.       *)
(***************************************************************************)
C18_SettingsOnlyNameAndIncludes ==
    [][(pc = "step1" /\ pc' = "step2" /\ Exists(files, SettingsPath)) =>
          files'[SettingsPath] = NameAndIncludeLines(Split(files[SettingsPath], "\n"))]_vars

(***************************************************************************)
(* C21: no key occurs twice in the [versions] section of a generated       *)
(* catalog, the baseline key plasmaGradlePlugins included, and a key that  *)
(* both the extraction and the reference catalog define is emitted with    *)
(* the value of the reference catalog.                                     *)
(***************************************************************************)
C21_VersionKeysUnique ==
    toml # None =>
        /\ \A i, j \in EntryLines(toml.text, "[versions]") :
              i # j => EntryKey(LineAt(toml.text, i)) # EntryKey(LineAt(toml.text, j))
        /\ \A n \in 1..Len(versions) :
              versions[n].k \in Keys(RefVersions) =>
                  \A l \in EntryTexts(toml.text, "[versions]") :
                      EntryKey(l) = versions[n].k =>
                          l = VersionLineOf([k |-> versions[n].k,
                                             v |-> Lookup(RefVersions, versions[n].k)])

(***************************************************************************)
(* The two build-file scans on a project tree of which at most MaxFailing  *)
(* directories cannot be read (the root: missing or unreadable).           *)
(***************************************************************************)
MaxFailing == 1

ScanTrees ==
    ProjectTrees
      \cup { TreeOf(<< [k |-> "build.gradle", v |-> RootBuildText],
                       [k |-> "app/build.gradle.kts", v |-> AppBuildText],
                       [k |-> "app/build/tmp/build.gradle", v |-> AppBuildText],
                       [k |-> ".gradle/build.gradle", v |-> RootBuildText],
                       [k |-> "lib/src/build.gradle", v |-> LibBuildText] >>),
             TreeOf(<< [k |-> "versions.gradle", v |-> VersionsGradleText],
                       [k |-> ".git/build.gradle", v |-> RootBuildText],
                       [k |-> "lib/build.gradle", v |-> LibBuildText],
                       [k |-> "lib/.copilot/meta/buildSrc/build.gradle", v |-> RootBuildText] >>) }

\* the directories of a tree, the root included
DirectoriesOf(tree) ==
    UNION { { SubSeq(q, 1, n) : n \in 0..(Len(q) - 1) } : q \in PathsOf(tree) }

InitScan ==
    /\ files \in ScanTrees
    /\ failing \in { U \in SUBSET DirectoriesOf(files) : Cardinality(U) <= MaxFailing }
    /\ parserScan = None
    /\ plannerScan = None
    /\ meta = None
    /\ pc = "idle"
    /\ filesChanged = <<>>
    /\ lowRisk = 0
    /\ mediumRisk = 0
    /\ highRisk = 0
    /\ buildFiles = <<>>
    /\ idx = 0
    /\ lastAI = "none"
    /\ aiFailed = FALSE
    /\ runs = 0
    /\ result = None
    /\ IdleText
    /\ IdleDiff
    /\ IdleToml
    /\ IdleCommand

ParserScans ==
    /\ parserScan = None
    /\ parserScan' = findGradleFiles(files, failing)
    /\ UNCHANGED <<failing, plannerScan, textVars, diffVars, tomlVars, runVars, cmdVars>>

PlannerScans ==
    /\ plannerScan = None
    /\ plannerScan' = findAllBuildGradleFilesReading(files, failing)
    /\ UNCHANGED <<failing, parserScan, textVars, diffVars, tomlVars, runVars, cmdVars>>

NextScan == ParserScans \/ PlannerScans

SpecScan == InitScan /\ [][NextScan]_vars

\* the directories above a file
AncestorsOf(path) == { Split(path, "/")[n] : n \in 1..(Len(Split(path, "/")) - 1) }
AncestorPaths(path) ==
    { SubSeq(Split(path, "/"), 1, n) : n \in 0..(Len(Split(path, "/")) - 1) }
Listed(scan) == { scan.files[n] : n \in 1..Len(scan.files) }

(***************************************************************************)
(* C22: no path returned by findGradleFiles or findAllBuildGradleFiles     *)
(* lies under a version-control, build-output or tool-metadata directory   *)
(* (.git, .copilot, build, .gradle), at any depth.                         *)
(***************************************************************************)
C22_ScansPrune ==
    \A scan \in {parserScan, plannerScan} :
        (scan # None /\ scan # Threw) =>
            \A q \in Listed(scan) : AncestorsOf(q) \cap PrunedDirectories = {}

(***************************************************************************)
(* C23: a scan fails only when the project root cannot be read; with a     *)
(* readable root it returns the build files of the directories that can    *)
(* be read, skipping the others.                                           *)
(***************************************************************************)
C23_UnreadableSkipped ==
    \A scan \in {parserScan, plannerScan} :
        (scan # None /\ <<>> \notin failing) =>
            /\ scan # Threw
            /\ \A q \in Listed(scan) : AncestorPaths(q) \cap failing = {}
            /\ \A q \in DOMAIN files :
                  (/\ IsBuildGradleName(Split(q, "/")[Len(Split(q, "/"))])
                   /\ AncestorPaths(q) \cap failing = {}
                   /\ AncestorsOf(q) \cap PrunedDirectories = {})
                  => q \in Listed(scan)

(***************************************************************************)
(* C24: the steps of a run are taken in the fixed order settings, buildSrc *)
(* template, catalog, wrapper, deletion of the root files, rewriting of    *)
(* the build files, validation and summary.  The extraction of step 3      *)
(* reads the root build.gradle and the root versions.gradle, which only    *)
(* the deletion step removes, and the step that validates and returns the  *)
(* summary is taken after the last build file and changes no file.         *)
(***************************************************************************)
StepOrder ==
    { <<"step0", "step1">>, <<"step1", "step2">>, <<"step2", "step3">>, <<"step3", "step4">>,
      <<"step4", "step5">>, <<"step5", "step6">>, <<"step6", "done">>, <<"step6", "failed">>,
      <<"done", "step0">> }
RootFiles == {RootBuildPath, VersionsGradlePath}
Range(list) == { list[n] : n \in 1..Len(list) }

C25_Step6OnlyExistingFiles ==
    /\ (pc = "step6" /\ idx <= Len(buildFiles)) =>
          buildFiles[idx] = RootBuildPath \/ Exists(files, buildFiles[idx])
    /\ pc # "failed"

(***************************************************************************)
(* C26: in step 6, when the AI service is absent or the request fails,     *)
(* the text handed to the stripper for a build file is the file's own      *)
(* content, not generated text.                                            *)
(***************************************************************************)
C26_OriginalContentStripped ==
    (/\ pc = "step6"
     /\ idx <= Len(buildFiles)
     /\ buildFiles[idx] # RootBuildPath
     /\ Exists(files, buildFiles[idx])) =>
        \A outcome \in AIAbsent \cup AIFailed :
            stripRepositoriesAndWrapperWithAI(files[buildFiles[idx]], buildFiles[idx],
                                              referenceContext, outcome)
              = files[buildFiles[idx]]

\* id 'common.lib' or id "common.lib"
commonLibDeclaration == << <<Lit("id"), Ws1, Quote, Lit("common.lib"), Quote>> >>
\* the number of characters c of text between two positions
CountOf(text, from, to, c) == Cardinality({ j \in from..to : Ch(text, j) = c })
\* position d is inside the block whose opening brace ends just before e:
\* no brace between them closes the block, and a closing brace follows
InsideBlock(text, e, d) ==
    /\ \A j \in e..(d - 1) : CountOf(text, e, j, "}") <= CountOf(text, e, j, "{")
    /\ \E j \in d..Len(text) : Ch(text, j) = "}"
\* the declaration occurs inside a plugins block of the text
DeclaredInPluginsBlock(text) ==
    \E p \in 1..Len(text) :
        /\ MatchBegins(pluginsOpenRegex, text, p)
        /\ \E d \in MatchFrom(pluginsOpenRegex, text, p).end..Len(text) :
              /\ MatchBegins(commonLibDeclaration, text, d)
              /\ InsideBlock(text, MatchFrom(pluginsOpenRegex, text, p).end, d)
\* the text with the declaration as the first entry of its first plugins block
DeclaredFirstIn(text) ==
    LET open == FindFrom(pluginsOpenRegex, text, 1)
    IN  SubSeq(text, 1, open.end - 1) \o "\n    id 'common.lib'"
          \o SubSeq(text, open.end, Len(text))

(***************************************************************************)
(* C27: the text ensureCommonLibPlugin returns has the declaration         *)
(* id 'common.lib' inside a plugins block.  A text that has it there is    *)
(* returned as it is; a text with a plugins block that lacks it gets it as *)
(* the first entry of the block; a text without a plugins block gets a new *)
(* block with the declaration alone at its top.  A declaration outside     *)
(* every plugins block does not count.                                     *)
(***************************************************************************)
C27_DeclarationInPluginsBlock ==
    first # None =>
        /\ DeclaredInPluginsBlock(first.updated)
        /\ IF DeclaredInPluginsBlock(content) THEN first.updated = content
           ELSE IF Test(hasPluginsBlockRegex, content)
           THEN first.updated = DeclaredFirstIn(content)
           ELSE first.updated = "plugins {\n    id 'common.lib'\n}\n\n" \o content

(***************************************************************************)
(* C28: at the end of a run the risk counters add up to the number of      *)
(* recorded changes: every entry of filesChanged has incremented exactly   *)
(* one counter, and a step that changes nothing has incremented none.      *)
(***************************************************************************)
C28_TallyMatchesChanges ==
    pc = "done" =>
        /\ lowRisk + mediumRisk + highRisk = Len(filesChanged)
        /\ result.riskSummary = RiskSummary(lowRisk, mediumRisk, highRisk)
        /\ result.filesChanged = filesChanged

(***************************************************************************)
(* C30: no step after step 2 modifies the files copied from the buildSrc   *)
(* template: from step 3 to the end of the run every template file,        *)
(* buildSrc/build.gradle included, has the content of the template, and    *)
(* the loop of step 6 takes no file under buildSrc.                        *)
(***************************************************************************)
C30_TemplateUntouched ==
    (pc \in {"step3", "step4", "step5", "step6", "done"} /\ meta.hasBuildSrc) =>
        /\ \A n \in 1..Len(meta.buildSrc) :
              /\ Exists(files, "buildSrc/" \o meta.buildSrc[n].k)
              /\ files["buildSrc/" \o meta.buildSrc[n].k] = meta.buildSrc[n].v
        /\ \A n \in 1..Len(buildFiles) : buildFiles[n] \notin UnderBuildSrc(files)

(***************************************************************************)
(* The run with its requests to the AI service in flight.  The two awaits  *)
(* of sendRequest and of the response stream (step 3, and step 6 for every *)
(* build file) are states of their own: the run goes on when the service   *)
(* answers, fails or closes the stream.  Without vscode.lm or without a    *)
(* model no request is sent and the step is taken at once.  The steps of   *)
(* the run are taken when they can be; nothing obliges the service to      *)
(* answer.                                                                 *)
(***************************************************************************)
\* what the call can come to without a request, and with one
WithoutRequest == {"noApi", "noModel"}
AfterRequest == AIOutcomes \ WithoutRequest

Step3_WithoutRequest ==
    /\ Step3_GenerateCatalog
    /\ lastAI' \in WithoutRequest

Step3_SendRequest ==
    /\ pc = "step3"
    /\ buildFiles' = findAllBuildGradleFiles(files)
    /\ ExtractFrom(Join(TextsOf(files, buildFiles'), "\n\n"))
    /\ pc' = "await3"
    /\ UNCHANGED <<files, meta, filesChanged, lowRisk, mediumRisk, highRisk, idx, lastAI,
                   aiFailed, runs, result, referenceContext, toml, textVars, diffVars,
                   cmdVars, scanVars>>

Step3_Answered ==
    /\ pc = "await3"
    /\ \E outcome \in AfterRequest :
         /\ toml' = [text |-> buildTomlWithAI(versions, deps, referenceContext, outcome)]
         /\ files' = WriteFile(files, TomlPath, toml'.text)
         /\ lastAI' = outcome
         /\ aiFailed' = (aiFailed \/ outcome \in AIFailed)
    /\ filesChanged' = Append(filesChanged, TomlPath)
    /\ mediumRisk' = mediumRisk + 1
    /\ pc' = "step4"
    /\ UNCHANGED <<meta, lowRisk, highRisk, buildFiles, idx, runs, result, versions, deps,
                   referenceContext, textVars, diffVars, cmdVars, scanVars>>

Step6_RewriteWithoutRequest ==
    /\ pc = "step6"
    /\ idx <= Len(buildFiles)
    /\ buildFiles[idx] # RootBuildPath
    /\ Exists(files, buildFiles[idx])
    /\ \E outcome \in WithoutRequest :
         RewriteAndStoreGiven(outcome, buildFiles[idx], files[buildFiles[idx]],
                              RewritePrompt(files[buildFiles[idx]], referenceContext))
    /\ idx' = idx + 1
    /\ UNCHANGED <<meta, pc, lowRisk, highRisk, buildFiles, lastAI, runs, result, tomlVars,
                   textVars, diffVars, cmdVars, scanVars>>

Step6_SendRequest ==
    /\ pc = "step6"
    /\ idx <= Len(buildFiles)
    /\ buildFiles[idx] # RootBuildPath
    /\ Exists(files, buildFiles[idx])
    /\ pc' = "await6"
    /\ UNCHANGED <<files, meta, filesChanged, lowRisk, mediumRisk, highRisk, buildFiles,
                   idx, lastAI, aiFailed, runs, result, tomlVars, textVars, diffVars,
                   cmdVars, scanVars>>

Step6_Answered ==
    /\ pc = "await6"
    /\ \E outcome \in AfterRequest :
         RewriteAndStoreGiven(outcome, buildFiles[idx], files[buildFiles[idx]],
                              RewritePrompt(files[buildFiles[idx]], referenceContext))
    /\ idx' = idx + 1
    /\ pc' = "step6"
    /\ UNCHANGED <<meta, lowRisk, highRisk, buildFiles, lastAI, runs, result, tomlVars,
                   textVars, diffVars, cmdVars, scanVars>>

\* the steps the run takes by itself
RunSteps ==
    \/ Step0_AnalyzeReference
    \/ Step1_UpdateSettings
    \/ Step2_CopyBuildSrc
    \/ Step3_WithoutRequest
    \/ Step3_SendRequest
    \/ Step4_UpdateWrapper
    \/ Step5_DeleteRootFiles
    \/ Step6_SkipRootBuild
    \/ Step6_ReadThrows
    \/ Step6_RewriteWithoutRequest
    \/ Step6_SendRequest
    \/ Step7_ReturnSummary

NextAwait == RunSteps \/ Step3_Answered \/ Step6_Answered

\* The run is at a step it takes by itself.  At each of these positions a
\* step of RunSteps can be taken, and the steps of RunSteps are the steps
\* from these positions that change the position or the index of the loop:
\* the fairness of the run is stated on the two.
RunGoesOn ==
    /\ pc \in {"step0", "step1", "step2", "step3", "step4", "step5", "step6"}
    /\ pc' \in {"step1", "step2", "step3", "step4", "step5", "step6", "await3", "await6",
                "done", "failed"}
    /\ idx' \in 0..(Len(buildFiles) + 1)

SpecAwait == Init /\ [][NextAwait]_vars /\ WF_<<pc, idx>>(RunGoesOn)

(***************************************************************************)
(* C29: the call to the AI service is bounded: a run that waits for the    *)
(* service eventually goes on, whether the service answers or not, and so  *)
(* comes to its end.                                                       *)
(***************************************************************************)
C29_RequestBounded ==
    (pc \in {"await3", "await6"}) ~> (pc \in {"done", "failed"})

====
